---- MODULE Spec2Model ----
(***************************************************************************)
(* A model of the DQUOTE client: the remote document store (posts, likes,  *)
(* users, follows, verificationRequests) shared by several client          *)
(* instances, and the event handlers of PostCard, CreatePage, HomePage,    *)
(* AdminPage, SettingsPage, UserCard, ExplorePage, ProfilePage, the        *)
(* sign-up form and the auth-state callbacks of AuthProvider.              *)
(* Every await of a remote call is a separate step, so the handlers of     *)
(* different clients interleave between their remote calls.                *)
(***************************************************************************)
EXTENDS Integers, Sequences, FiniteSets, TLC

\* ---------------------------------------------------------------- bounds
MaxLikeDocs == 3
MaxInFlight == 2
MaxPosts == 2
MaxDecisions == 2
MaxSearches == 2
MaxFollowDocs == 3
MaxAuthFetches == 2
MaxProfileCalls == 2

\* The client instances (browser sessions) and the registered identities.
Clients == {1, 2}

Users == {1, 2}

VARIABLES
  posts,        \* store: collection 'posts', a sequence of documents (index = document id)
  likes,        \* store: collection 'likes', a sequence of documents [id, postId, userId]
  nextLikeId,   \* store: number of like documents ever created (document ids are never reused)
  users,        \* store: collection 'users', uid -> document
  follows,      \* store: collection 'follows', a sequence of documents [id, followerId, followingId]
  requests,     \* store: collection 'verificationRequests', id -> document
  clock,        \* wall clock read by new Date()
  session,      \* client -> uid of the signed-in user (useAuth().user)
  profile,      \* client -> the cached userProfile of AuthProvider
  toast,        \* client -> the last notice shown by toast()
  card,         \* client -> state of the PostCard of post CardPost: liked, likeCount, loading, calls
  likeHist,     \* observer of two successive handleLike invocations (observation only)
  create,       \* client -> state of CreatePage
  home,         \* state of the HomePage shown by client HomeClient
  admin,        \* client -> state of AdminPage
  notifications,\* store: collection 'notifications', a sequence of documents
  authUsers,    \* the accounts of the authentication service: uid -> e-mail address
  nextFollowId, \* store: number of follow documents ever created (document ids are never reused)
  ucard,        \* client -> state of the UserCard of target CardTarget
  settings,     \* client -> state of SettingsPage
  explore,      \* state of the ExplorePage shown by client ExploreClient
  signup,       \* client -> state of the sign-up form of LandingPage
  auth,         \* AuthProvider of client AuthClient: user, userProfile, loading, callbacks running
  ppage         \* state of the ProfilePage shown by client AuthClient

storeVars == <<posts, likes, nextLikeId, users, follows, requests>>
\* The variables of UserCard, SettingsPage, ExplorePage, the sign-up form and their services.
moreVars == <<notifications, authUsers, nextFollowId, ucard, settings, explore, signup, auth,
             ppage>>

vars == <<posts, likes, nextLikeId, users, follows, requests, clock, session, profile, toast,
          card, likeHist, create, home, admin, moreVars>>

\* ------------------------------------------------------- sequence helpers
RemoveAt(s, i) == SubSeq(s, 1, i - 1) \o SubSeq(s, i + 1, Len(s))

Range(s) == {s[i] : i \in 1..Len(s)}

Min(a, b) == IF a < b THEN a ELSE b

\* String.prototype.toLowerCase() on the letters of the model: "A" and "B" are the upper
\* case forms of "a" and "b"; every other character is left as it is.
LowerChar(ch) == IF ch = "A" THEN "a" ELSE IF ch = "B" THEN "b" ELSE ch

ToLowerCase(t) == [k \in 1..Len(t) |-> LowerChar(t[k])]

\* ================================================================ PostCard
\* The post a PostCard shows (post.id); the cards of all clients show the same post.
CardPost == 1

\* query(likeRef, where('postId','==',post.id), where('userId','==',user.uid))
LikeQueryDocs(ls, pid, uid) == SelectSeq(ls, LAMBDA d : d.postId = pid /\ d.userId = uid)

EdgeCount(pid, uid) == Len(LikeQueryDocs(likes, pid, uid))

\* updateDoc(doc(db,'posts',id), { likeCount: increment(d) })
IncrementLikeCount(ps, pid, d) == [ps EXCEPT ![pid].likeCount = ps[pid].likeCount + d]

\* deleteDoc(ref): removes the document with that id; deleting a missing document succeeds
DeleteLikeDoc(ls, ref) == SelectSeq(ls, LAMBDA d : d.id # ref)

\* const [liked, setLiked] = useState(post.isLiked || false); no writer ever stores
\* isLiked on a post document, so a fresh card starts not liked.
NewCard(p) == [liked |-> FALSE, likeCount |-> p.likeCount, loading |-> FALSE, calls |-> <<>>,
               ignored |-> FALSE]

\* The observer of two successive handleLike invocations of the card of ObservedClient:
\* stage 0 nothing observed, 1 first invocation in flight, 2 first completed,
\* 3 second in flight, 4 second completed; snap is the Snapshot before the first.
ObservedClient == 1

NoHist == [stage |-> 0, snap |-> <<>>]

\* What a like toggle is meant to preserve: local flag, local count, stored count, stored edges.
Snapshot(c) == <<card[c].liked, card[c].likeCount, posts[CardPost].likeCount,
                 EdgeCount(CardPost, session[c])>>

\* Observer bookkeeping.  A step of another client's card, a failed call and a new card
\* end the observation; a completed invocation of the observed card advances it.
HistStep(c) == IF c = ObservedClient THEN likeHist ELSE NoHist

HistDone(c) == IF c # ObservedClient THEN NoHist
               ELSE IF likeHist.stage \in {1, 3} THEN [likeHist EXCEPT !.stage = @ + 1]
               ELSE NoHist

\* A page shows the post again (navigation, reload): a new PostCard is built from the fetched post.
CardMount(c) ==
  /\ Len(posts) >= CardPost
  /\ card[c].calls = <<>>
  /\ card' = [card EXCEPT ![c] = NewCard(posts[CardPost])]
  /\ likeHist' = IF c = ObservedClient THEN NoHist ELSE likeHist
  /\ UNCHANGED <<moreVars, storeVars, clock, session, profile, toast, create, home, admin>>

\* handleLike past the busy-flag guard: setLoading(true), then getDocs is issued.
\* The closure holds the value of liked of the render the click happened in.
StartLike(c) ==
  /\ Len(card[c].calls) < MaxInFlight
  /\ nextLikeId + Len(card[c].calls) < MaxLikeDocs
  /\ card' = [card EXCEPT ![c].loading = TRUE,
                          ![c].calls = Append(@, [pc |-> "getDocs", liked |-> card[c].liked, ref |-> 0])]
  /\ \/ c = ObservedClient /\ likeHist.stage = 2 /\ likeHist' = [likeHist EXCEPT !.stage = 3]
     \/ c = ObservedClient /\ likeHist' = [stage |-> 1, snap |-> Snapshot(c)]
     \/ likeHist' = NoHist
  /\ UNCHANGED <<moreVars, storeVars, clock, session, profile, toast, create, home, admin>>

\* handleLike without the loading test of line 33
HandleLikeNoBusy(c) ==
  /\ Len(posts) >= CardPost
  /\ StartLike(c)

\* handleLike up to its first await: if (!user || loading) return; AuthGuard renders the
\* pages only with a signed-in user.  ignored records that a click returned at the guard.
HandleLike(c) ==
  /\ Len(posts) >= CardPost
  /\ IF card[c].loading
     THEN /\ card' = [card EXCEPT ![c].ignored = TRUE]
          /\ UNCHANGED <<moreVars, storeVars, clock, session, profile, toast, likeHist, create, home, admin>>
     ELSE StartLike(c)

\* handleLike with an unlike branch that never deletes the edge
LikeBranchNoDelete(liked, docs) ==
  IF liked THEN "updateDec" ELSE "addDoc"

\* The pc handleLike reaches once getDocs has resolved with snapshot docs.
LikeBranch(liked, docs) ==
  IF liked THEN (IF docs # <<>> THEN "deleteDoc" ELSE "updateDec") ELSE "addDoc"

\* getDocs(likeQuery) resolves.
LikeGetDocs(c, i) ==
  /\ i \in 1..Len(card[c].calls)
  /\ card[c].calls[i].pc = "getDocs"
  /\ LET docs == LikeQueryDocs(likes, CardPost, session[c])
         call == card[c].calls[i]
     IN card' = [card EXCEPT ![c].calls[i] =
                   [pc |-> LikeBranch(call.liked, docs), liked |-> call.liked,
                    ref |-> IF docs # <<>> THEN docs[1].id ELSE 0]]
  /\ likeHist' = HistStep(c)
  /\ UNCHANGED <<moreVars, storeVars, clock, session, profile, toast, create, home, admin>>

\* deleteDoc as a checked delete: the handler ends when the edge is no longer stored
LikeDeleteDocChecked(c, i) ==
  /\ i \in 1..Len(card[c].calls)
  /\ card[c].calls[i].pc = "deleteDoc"
  /\ likes' = DeleteLikeDoc(likes, card[c].calls[i].ref)
  /\ card' = IF \E d \in Range(likes) : d.id = card[c].calls[i].ref
             THEN [card EXCEPT ![c].calls[i].pc = "updateDec"]
             ELSE [card EXCEPT ![c].loading = FALSE, ![c].calls = RemoveAt(@, i)]
  /\ likeHist' = HistStep(c)
  /\ UNCHANGED <<moreVars, posts, nextLikeId, users, follows, requests, clock, session, profile, toast, create, home, admin>>

\* deleteDoc(likeSnapshot.docs[0].ref) resolves.
LikeDeleteDoc(c, i) ==
  /\ i \in 1..Len(card[c].calls)
  /\ card[c].calls[i].pc = "deleteDoc"
  /\ likes' = DeleteLikeDoc(likes, card[c].calls[i].ref)
  /\ card' = [card EXCEPT ![c].calls[i].pc = "updateDec"]
  /\ likeHist' = HistStep(c)
  /\ UNCHANGED <<moreVars, posts, nextLikeId, users, follows, requests, clock, session, profile, toast, create, home, admin>>

\* updateDoc(likeCount: increment(-1)) resolves; setLiked(false); setLikeCount(prev - 1); finally.
LikeUpdateDec(c, i) ==
  /\ i \in 1..Len(card[c].calls)
  /\ card[c].calls[i].pc = "updateDec"
  /\ posts' = IncrementLikeCount(posts, CardPost, -1)
  /\ card' = [card EXCEPT ![c].liked = FALSE, ![c].likeCount = @ - 1,
                          ![c].loading = FALSE, ![c].calls = RemoveAt(@, i)]
  /\ likeHist' = HistDone(c)
  /\ UNCHANGED <<moreVars, likes, nextLikeId, users, follows, requests, clock, session, profile, toast, create, home, admin>>

\* addDoc(likeRef, {postId, userId, createdAt}) resolves.
LikeAddDoc(c, i) ==
  /\ i \in 1..Len(card[c].calls)
  /\ card[c].calls[i].pc = "addDoc"
  /\ likes' = Append(likes, [id |-> nextLikeId + 1, postId |-> CardPost, userId |-> session[c]])
  /\ nextLikeId' = nextLikeId + 1
  /\ card' = [card EXCEPT ![c].calls[i].pc = "updateInc"]
  /\ likeHist' = HistStep(c)
  /\ UNCHANGED <<moreVars, posts, users, follows, requests, clock, session, profile, toast, create, home, admin>>

\* updateDoc(likeCount: increment(1)) resolves; setLiked(true); setLikeCount(prev + 1); finally.
LikeUpdateInc(c, i) ==
  /\ i \in 1..Len(card[c].calls)
  /\ card[c].calls[i].pc = "updateInc"
  /\ posts' = IncrementLikeCount(posts, CardPost, 1)
  /\ card' = [card EXCEPT ![c].liked = TRUE, ![c].likeCount = @ + 1,
                          ![c].loading = FALSE, ![c].calls = RemoveAt(@, i)]
  /\ likeHist' = HistDone(c)
  /\ UNCHANGED <<moreVars, likes, nextLikeId, users, follows, requests, clock, session, profile, toast, create, home, admin>>

\* LikeFail with a compensating delete of the viewer's edges after a failed increment
LikeFailCompensating(c, i) ==
  /\ i \in 1..Len(card[c].calls)
  /\ card' = [card EXCEPT ![c].loading = FALSE, ![c].calls = RemoveAt(card[c].calls, i)]
  /\ toast' = [toast EXCEPT ![c] = "Failed to update like"]
  /\ likeHist' = NoHist
  /\ likes' = IF card[c].calls[i].pc = "updateInc"
              THEN SelectSeq(likes, LAMBDA d : ~(d.postId = CardPost /\ d.userId = session[c]))
              ELSE likes
  /\ UNCHANGED <<moreVars, posts, nextLikeId, users, follows, requests, clock, session, profile,
                 create, home, admin>>

\* Any awaited call of handleLike rejects: catch shows the error toast, finally clears loading.
LikeFail(c, i) ==
  /\ i \in 1..Len(card[c].calls)
  /\ card' = [card EXCEPT ![c].loading = FALSE, ![c].calls = RemoveAt(card[c].calls, i)]
  /\ toast' = [toast EXCEPT ![c] = "Failed to update like"]
  /\ likeHist' = NoHist
  /\ UNCHANGED <<moreVars, storeVars, clock, session, profile, create, home, admin>>

LikeStep(c) ==
  \/ CardMount(c)
  \/ HandleLike(c)
  \/ \E i \in 1..MaxInFlight :
       \/ LikeGetDocs(c, i)
       \/ LikeDeleteDoc(c, i)
       \/ LikeUpdateDec(c, i)
       \/ LikeAddDoc(c, i)
       \/ LikeUpdateInc(c, i)
       \/ LikeFail(c, i)

\* ============================================================== CreatePage
\* The characters of a text are letters or whitespace; " " stands for any whitespace.
Chars == {"a", " "}

\* String.prototype.trim(): strips leading and trailing whitespace.
RECURSIVE TrimStart(_)
TrimStart(t) == IF t # <<>> /\ Head(t) = " " THEN TrimStart(Tail(t)) ELSE t

RECURSIVE TrimEnd(_)
TrimEnd(t) == IF t # <<>> /\ t[Len(t)] = " " THEN TrimEnd(SubSeq(t, 1, Len(t) - 1)) ELSE t

Trim(t) == TrimEnd(TrimStart(t))

\* The texts a user types into the form.
Texts == {<<>>, <<" ">>, <<" ", "a", " ">>, <<"a", " ", "a">>}

\* 60 * 1000 ms, in seconds
RateWindow == 60

\* The instants at which the steps of the clients happen (seconds).
Instants == {0, 59, 60, 119}

\* postData with the text stored as typed
PostDataUntrimmed(uid, text, at, prof) ==
  [userId |-> uid, text |-> text, createdAt |-> at, likeCount |-> 0, commentCount |-> 0,
   isPublic |-> ~prof.isPrivate]

\* postData of CreatePage.handleSubmit
PostData(uid, text, at, prof) ==
  [userId |-> uid, text |-> Trim(text), createdAt |-> at, likeCount |-> 0, commentCount |-> 0,
   isPublic |-> ~prof.isPrivate]

\* the document written by LandingPage.handleSignup
UserDoc == [postCount |-> 0, isPrivate |-> FALSE, isVerified |-> FALSE,
            followerCount |-> 0, followingCount |-> 0]

\* checkRateLimit with the comparison of line 31 reversed
CheckRateLimitReversed(ps, uid, now) ==
  ~\E i \in 1..Len(ps) : ps[i].userId = uid /\ ps[i].createdAt < now - RateWindow

\* checkRateLimit: recentPosts.empty for where('userId','==',uid), where('createdAt','>',oneMinuteAgo)
CheckRateLimit(ps, uid, now) ==
  ~\E i \in 1..Len(ps) : ps[i].userId = uid /\ ps[i].createdAt > now - RateWindow

\* CreatePage as mounted: text '', loading false; now and createdAt are the locals of a call.
IdleCreate == [pc |-> "idle", loading |-> FALSE, text |-> <<>>, now |-> 0, createdAt |-> 0]

InFlightCreates == Cardinality({c \in Clients : create[c].pc # "idle"})

\* handleSubmit up to its first await.  The submit button is disabled while loading.
HandleSubmit(c, t) ==
  /\ create[c].pc = "idle"
  /\ Len(posts) + InFlightCreates < MaxPosts
  /\ IF Trim(t) = <<>>
     THEN /\ toast' = [toast EXCEPT ![c] = "Please enter some text"]
          /\ create' = [create EXCEPT ![c].text = t]
     ELSE /\ create' = [create EXCEPT ![c] = [pc |-> "checkRateLimit", loading |-> TRUE, text |-> t,
                                               now |-> clock, createdAt |-> 0]]
          /\ UNCHANGED toast
  /\ UNCHANGED <<moreVars, storeVars, clock, session, profile, card, likeHist, home, admin>>

\* await checkRateLimit() resolves: rejected with the rate-limit toast, or postData is built.
CreateCheck(c) ==
  /\ create[c].pc = "checkRateLimit"
  /\ IF CheckRateLimit(posts, session[c], create[c].now)
     THEN /\ create' = [create EXCEPT ![c].pc = "addDoc", ![c].createdAt = clock]
          /\ UNCHANGED toast
     ELSE /\ create' = [create EXCEPT ![c].pc = "idle", ![c].loading = FALSE, ![c].now = 0]
          /\ toast' = [toast EXCEPT ![c] = "Too fast!"]
  /\ UNCHANGED <<moreVars, storeVars, clock, session, profile, card, likeHist, home, admin>>

\* addDoc guarded again by the rate limit, as one transaction
CreateAddDocRechecked(c) ==
  /\ create[c].pc = "addDoc"
  /\ IF CheckRateLimit(posts, session[c], create[c].now)
     THEN /\ posts' = Append(posts, PostData(session[c], create[c].text, create[c].createdAt, profile[c]))
          /\ create' = [create EXCEPT ![c].pc = "updateDoc"]
          /\ UNCHANGED toast
     ELSE /\ create' = [create EXCEPT ![c].pc = "idle", ![c].loading = FALSE, ![c].now = 0]
          /\ toast' = [toast EXCEPT ![c] = "Too fast!"]
          /\ UNCHANGED posts
  /\ UNCHANGED <<moreVars, likes, nextLikeId, users, follows, requests, clock, session, profile, card,
                 likeHist, home, admin>>

\* await addDoc(collection(db,'posts'), postData) resolves.
CreateAddDoc(c) ==
  /\ create[c].pc = "addDoc"
  /\ posts' = Append(posts, PostData(session[c], create[c].text, create[c].createdAt, profile[c]))
  /\ create' = [create EXCEPT ![c].pc = "updateDoc"]
  /\ UNCHANGED <<moreVars, likes, nextLikeId, users, follows, requests, clock, session, profile, toast, card,
                 likeHist, home, admin>>

\* the counter write as a plain write of 1 instead of increment(1)
CreateUpdateDocOverwrite(c) ==
  /\ create[c].pc = "updateDoc"
  /\ users' = [users EXCEPT ![session[c]].postCount = 1]
  /\ create' = [create EXCEPT ![c] = IdleCreate]
  /\ toast' = [toast EXCEPT ![c] = "Posted!"]
  /\ UNCHANGED <<moreVars, posts, likes, nextLikeId, follows, requests, clock, session, profile, card,
                 likeHist, home, admin>>

\* await updateDoc(users/uid, {postCount: increment(1)}) resolves; toast, setText(''), finally.
CreateUpdateDoc(c) ==
  /\ create[c].pc = "updateDoc"
  /\ users' = [users EXCEPT ![session[c]].postCount = @ + 1]
  /\ create' = [create EXCEPT ![c] = IdleCreate]
  /\ toast' = [toast EXCEPT ![c] = "Posted!"]
  /\ UNCHANGED <<moreVars, posts, likes, nextLikeId, follows, requests, clock, session, profile, card,
                 likeHist, home, admin>>

\* An awaited call of handleSubmit rejects: catch shows the error toast, finally clears loading.
CreateFail(c) ==
  /\ create[c].pc \in {"checkRateLimit", "addDoc", "updateDoc"}
  /\ create' = [create EXCEPT ![c].pc = "idle", ![c].loading = FALSE, ![c].now = 0, ![c].createdAt = 0]
  /\ toast' = [toast EXCEPT ![c] = "Failed to create post"]
  /\ UNCHANGED <<moreVars, storeVars, clock, session, profile, card, likeHist, home, admin>>

\* Time passes.
Tick ==
  /\ \E t \in Instants : t > clock /\ clock' = t
  /\ UNCHANGED <<moreVars, storeVars, session, profile, toast, card, likeHist, create, home, admin>>

CreateStep(c) ==
  \/ \E t \in Texts : HandleSubmit(c, t)
  \/ CreateCheck(c)
  \/ CreateAddDoc(c)
  \/ CreateUpdateDoc(c)
  \/ CreateFail(c)

\* ================================================================ HomePage
\* The client that shows HomePage.
HomeClient == 1

\* following.slice(0, 10)
FollowChunk == 10

\* limit(20) of the followee query
FeedLimit == 20

\* limit(10) of the popular query
PopularLimit == 10

\* HomePage not shown.
NoHomePage == [loading |-> TRUE, following |-> <<>>, followPending |-> FALSE, fetches |-> <<>>,
               posts |-> <<>>, failures |-> 0]

\* HomePage after its first render and effects: fetchFollowing is issued, and fetchHomeFeed is
\* issued with the initial (empty) following of its closure.
NewHomePage == [loading |-> TRUE, following |-> <<>>, followPending |-> TRUE, fetches |-> << <<>> >>,
                posts |-> <<>>, failures |-> 0]

Take(s, n) == SubSeq(s, 1, Min(n, Len(s)))

RECURSIVE OrderByDesc(_, _, _)
\* orderBy(field, 'desc') over the documents with ids in S: descending by the field, equal
\* values in descending order of document id.
OrderByDesc(ps, S, field) ==
  IF S = {} THEN <<>>
  ELSE LET m == CHOOSE i \in S : \A j \in S :
                  \/ ps[j][field] < ps[i][field]
                  \/ ps[j][field] = ps[i][field] /\ j <= i
       IN <<m>> \o OrderByDesc(ps, S \ {m}, field)

\* postsSnapshot.docs.map(...): the Post objects of the documents with the given ids
FetchedPosts(ps, ids) ==
  [k \in 1..Len(ids) |->
     [id |-> ids[k], userId |-> ps[ids[k]].userId, text |-> ps[ids[k]].text,
      createdAt |-> ps[ids[k]].createdAt, likeCount |-> ps[ids[k]].likeCount,
      commentCount |-> ps[ids[k]].commentCount, isLiked |-> FALSE]]

\* followingSnapshot.docs.map(doc => doc.data().followingId) for where('followerId','==',uid)
FollowingIds(fs, uid) ==
  LET mine == SelectSeq(fs, LAMBDA d : d.followerId = uid)
  IN [k \in 1..Len(mine) |-> mine[k].followingId]

\* where('userId','in',chunk), orderBy('createdAt','desc'), limit(20)
FolloweeQuery(ps, chunk) ==
  Take(OrderByDesc(ps, {i \in 1..Len(ps) : ps[i].userId \in Range(chunk)}, "createdAt"), FeedLimit)

\* the popular query ordered by recency
PopularQueryByRecency(ps) == Take(OrderByDesc(ps, 1..Len(ps), "createdAt"), PopularLimit)

\* orderBy('likeCount','desc'), limit(10)
PopularQuery(ps) == Take(OrderByDesc(ps, 1..Len(ps), "likeCount"), PopularLimit)

\* The query fetchHomeFeed builds from the following of its closure.
HomeFeedQuery(ps, following) ==
  IF Len(following) > 0 THEN FolloweeQuery(ps, Take(following, FollowChunk)) ELSE PopularQuery(ps)

\* fetchFollowing resolves: setFollowing(followingIds), and the effect on [following] issues
\* fetchHomeFeed with the new following; or rejects (console.error only).
FetchFollowing(ok) ==
  /\ home.followPending
  /\ IF ok
     THEN LET ids == FollowingIds(follows, session[HomeClient])
          IN home' = [home EXCEPT !.followPending = FALSE, !.following = ids,
                                  !.fetches = Append(@, ids)]
     ELSE home' = [home EXCEPT !.followPending = FALSE, !.failures = @ + 1]
  /\ UNCHANGED <<moreVars, storeVars, clock, session, profile, toast, card, likeHist, create, admin>>

\* The getDocs of the i-th fetchHomeFeed in flight resolves (setPosts) or rejects
\* (console.error only); finally setLoading(false).
FetchHomeFeed(i, ok) ==
  /\ i \in 1..Len(home.fetches)
  /\ IF ok
     THEN home' = [home EXCEPT !.posts = FetchedPosts(posts, HomeFeedQuery(posts, home.fetches[i])),
                               !.loading = FALSE, !.fetches = RemoveAt(@, i)]
     ELSE home' = [home EXCEPT !.loading = FALSE, !.fetches = RemoveAt(@, i), !.failures = @ + 1]
  /\ UNCHANGED <<moreVars, storeVars, clock, session, profile, toast, card, likeHist, create, admin>>

HomeStep ==
  \/ \E ok \in BOOLEAN : FetchFollowing(ok)
  \/ \E i \in 1..2 : \E ok \in BOOLEAN : FetchHomeFeed(i, ok)

\* =============================================================== AdminPage
\* AdminPage not shown.
NoAdminPage == [mounted |-> FALSE, loading |-> TRUE, fetching |-> FALSE, statsPending |-> FALSE,
                list |-> <<>>, calls |-> <<>>]

\* AdminPage as constructed, with both fetches of its effect issued.
NewAdminPage == [mounted |-> TRUE, loading |-> TRUE, fetching |-> TRUE, statsPending |-> TRUE,
                 list |-> <<>>, calls |-> <<>>]

\* A verification request as its (external) producer stores it.
RequestDoc(uid, at) == [userId |-> uid, status |-> "pending", createdAt |-> at,
                        reviewedBy |-> 0, reviewedAt |-> 0]

RECURSIVE PendingIdsDesc(_, _)
\* where('status','==','pending'), orderBy('createdAt','desc'): the ids of the pending
\* requests among the first n documents, newest first (documents are stored oldest first).
PendingIdsDesc(rs, n) ==
  IF n = 0 THEN <<>>
  ELSE IF rs[n].status = "pending" THEN <<n>> \o PendingIdsDesc(rs, n - 1)
  ELSE PendingIdsDesc(rs, n - 1)

\* The effect of AdminPage on mount: non-admins are sent home, admins issue both fetches.
AdminMount(a) ==
  /\ admin[a].calls = <<>> /\ ~admin[a].fetching /\ ~admin[a].statsPending
  /\ profile[a].isAdmin
  /\ admin' = [admin EXCEPT ![a] = NewAdminPage]
  /\ UNCHANGED <<moreVars, storeVars, clock, session, profile, toast, card, likeHist, create, home>>

\* fetchVerificationRequests resolves (ok) or rejects (console.error only).
FetchVerificationRequests(a, ok) ==
  /\ admin[a].fetching
  /\ admin' = [admin EXCEPT ![a].fetching = FALSE,
                            ![a].list = IF ok THEN PendingIdsDesc(requests, Len(requests)) ELSE @]
  /\ UNCHANGED <<moreVars, storeVars, clock, session, profile, toast, card, likeHist, create, home>>

\* fetchStats ends (finally: setLoading(false)); the statistics themselves are display only.
FetchStats(a) ==
  /\ admin[a].statsPending
  /\ admin' = [admin EXCEPT ![a].statsPending = FALSE, ![a].loading = FALSE]
  /\ UNCHANGED <<moreVars, storeVars, clock, session, profile, toast, card, likeHist, create, home>>

RECURSIVE SumLen(_, _)
SumLen(f, S) == IF S = {} THEN 0 ELSE LET x == CHOOSE y \in S : TRUE IN Len(f[x]) + SumLen(f, S \ {x})

\* The handleVerificationDecision calls in flight, over all sessions.
InFlightDecisions == SumLen([a \in Clients |-> admin[a].calls], Clients)

\* handleVerificationDecision up to its first await.  The Approve button passes
\* request.userId, the Reject button passes no userId (0).  There is no busy flag.
HandleVerificationDecision(a, r, decision) ==
  /\ admin[a].mounted /\ ~admin[a].loading /\ profile[a].isAdmin
  /\ r \in Range(admin[a].list)
  /\ InFlightDecisions < MaxDecisions
  /\ admin' = [admin EXCEPT ![a].calls = Append(@,
                 [req |-> r, decision |-> decision, pc |-> "updateRequest",
                  userId |-> IF decision = "approved" THEN requests[r].userId ELSE 0])]
  /\ UNCHANGED <<moreVars, storeVars, clock, session, profile, toast, card, likeHist, create, home>>

\* The end of the try block: the request leaves the local list, the success toast is shown.
DecisionDone(a, i) ==
  /\ admin' = [admin EXCEPT ![a].list = SelectSeq(@, LAMBDA q : q # admin[a].calls[i].req),
                            ![a].calls = RemoveAt(@, i)]
  /\ toast' = [toast EXCEPT ![a] = "Verification " \o admin[a].calls[i].decision]

\* updateDoc(verificationRequests/requestId, {status, reviewedAt, reviewedBy}) applied to rs
WriteDecision(rs, r, decision, by, at) ==
  [rs EXCEPT ![r].status = decision, ![r].reviewedAt = at, ![r].reviewedBy = by]

\* await updateDoc(verificationRequests/requestId, ...) resolves.
DecisionUpdateRequest(a, i) ==
  /\ i \in 1..Len(admin[a].calls)
  /\ admin[a].calls[i].pc = "updateRequest"
  /\ requests' = WriteDecision(requests, admin[a].calls[i].req, admin[a].calls[i].decision,
                               session[a], clock)
  /\ IF admin[a].calls[i].decision = "approved" /\ admin[a].calls[i].userId # 0
     THEN /\ admin' = [admin EXCEPT ![a].calls[i].pc = "updateUser"]
          /\ UNCHANGED toast
     ELSE DecisionDone(a, i)
  /\ UNCHANGED <<moreVars, posts, likes, nextLikeId, users, follows, clock, session, profile, card,
                 likeHist, create, home>>

\* the user write as a toggle of isVerified
DecisionUpdateUserToggle(a, i) ==
  /\ i \in 1..Len(admin[a].calls)
  /\ admin[a].calls[i].pc = "updateUser"
  /\ users' = [users EXCEPT ![admin[a].calls[i].userId].isVerified = ~@]
  /\ DecisionDone(a, i)
  /\ UNCHANGED <<moreVars, posts, likes, nextLikeId, follows, requests, clock, session, profile, card,
                 likeHist, create, home>>

\* await updateDoc(users/userId, {isVerified: true}) resolves.
DecisionUpdateUser(a, i) ==
  /\ i \in 1..Len(admin[a].calls)
  /\ admin[a].calls[i].pc = "updateUser"
  /\ users' = [users EXCEPT ![admin[a].calls[i].userId].isVerified = TRUE]
  /\ DecisionDone(a, i)
  /\ UNCHANGED <<moreVars, posts, likes, nextLikeId, follows, requests, clock, session, profile, card,
                 likeHist, create, home>>

\* a catch block that puts the request back to pending after a failed user write
DecisionFailRollback(a, i) ==
  /\ i \in 1..Len(admin[a].calls)
  /\ admin' = [admin EXCEPT ![a].calls = RemoveAt(@, i)]
  /\ toast' = [toast EXCEPT ![a] = "Failed to update verification request"]
  /\ requests' = IF admin[a].calls[i].pc = "updateUser"
                 THEN [requests EXCEPT ![admin[a].calls[i].req].status = "pending"]
                 ELSE requests
  /\ UNCHANGED <<moreVars, posts, likes, nextLikeId, users, follows, clock, session, profile, card,
                 likeHist, create, home>>

\* a handler that goes on to the user write after a failed request write
DecisionFailContinues(a, i) ==
  /\ i \in 1..Len(admin[a].calls)
  /\ IF admin[a].calls[i].pc = "updateRequest" /\ admin[a].calls[i].decision = "approved"
     THEN admin' = [admin EXCEPT ![a].calls[i].pc = "updateUser"]
     ELSE admin' = [admin EXCEPT ![a].calls = RemoveAt(@, i)]
  /\ toast' = [toast EXCEPT ![a] = "Failed to update verification request"]
  /\ UNCHANGED <<moreVars, storeVars, clock, session, profile, card, likeHist, create, home>>

\* An awaited updateDoc of handleVerificationDecision rejects: catch shows the error toast.
DecisionFail(a, i) ==
  /\ i \in 1..Len(admin[a].calls)
  /\ admin' = [admin EXCEPT ![a].calls = RemoveAt(@, i)]
  /\ toast' = [toast EXCEPT ![a] = "Failed to update verification request"]
  /\ UNCHANGED <<moreVars, storeVars, clock, session, profile, card, likeHist, create, home>>

AdminStep(a) ==
  \/ AdminMount(a)
  \/ \E ok \in BOOLEAN : FetchVerificationRequests(a, ok)
  \/ FetchStats(a)
  \/ \E r \in 1..Len(requests) : \E d \in {"approved", "rejected"} : HandleVerificationDecision(a, r, d)
  \/ \E i \in 1..MaxDecisions :
       \/ DecisionUpdateRequest(a, i)
       \/ DecisionUpdateUser(a, i)
       \/ DecisionFail(a, i)

\* ============================================================ SettingsPage
\* SettingsPage not shown.
NoSettingsPage == [mounted |-> FALSE, isPrivate |-> FALSE, loading |-> FALSE, checked |-> FALSE]

\* SettingsPage as constructed: useState(userProfile?.isPrivate || false), loading false.
NewSettingsPage(prof) == [mounted |-> TRUE, isPrivate |-> prof.isPrivate, loading |-> FALSE,
                          checked |-> FALSE]

\* The user opens SettingsPage.
SettingsMount(c) ==
  /\ ~settings[c].loading
  /\ settings' = [settings EXCEPT ![c] = NewSettingsPage(profile[c])]
  /\ UNCHANGED <<storeVars, notifications, authUsers, nextFollowId, clock, session, profile, toast, card,
                 likeHist, create, home, admin, ucard, explore, signup, auth, ppage>>

\* handlePrivacyToggle up to its await.  The Switch shows isPrivate, passes the opposite
\* value, and is disabled while loading.
HandlePrivacyToggle(c) ==
  /\ settings[c].mounted /\ ~settings[c].loading
  /\ settings' = [settings EXCEPT ![c].loading = TRUE, ![c].checked = ~settings[c].isPrivate]
  /\ UNCHANGED <<storeVars, notifications, authUsers, nextFollowId, clock, session, profile, toast, card,
                 likeHist, create, home, admin, ucard, explore, signup, auth, ppage>>

\* await updateDoc(users/uid, {isPrivate: checked}) resolves; setIsPrivate, toast, finally.
\* The cached userProfile of AuthProvider is not written.
PrivacyUpdateDoc(c) ==
  /\ settings[c].loading
  /\ users' = [users EXCEPT ![session[c]].isPrivate = settings[c].checked]
  /\ settings' = [settings EXCEPT ![c].isPrivate = settings[c].checked, ![c].loading = FALSE,
                                  ![c].checked = FALSE]
  /\ toast' = [toast EXCEPT ![c] = "Privacy settings updated"]
  /\ UNCHANGED <<posts, likes, nextLikeId, follows, requests, notifications, authUsers, nextFollowId, clock,
                 session, profile, card, likeHist, create, home, admin, ucard, explore, signup, auth, ppage>>

\* The updateDoc of handlePrivacyToggle rejects: catch shows the error toast, finally.
PrivacyFail(c) ==
  /\ settings[c].loading
  /\ settings' = [settings EXCEPT ![c].loading = FALSE, ![c].checked = FALSE]
  /\ toast' = [toast EXCEPT ![c] = "Failed to update privacy settings"]
  /\ UNCHANGED <<storeVars, notifications, authUsers, nextFollowId, clock, session, profile, card,
                 likeHist, create, home, admin, ucard, explore, signup, auth, ppage>>

\* userProfile as fetchUserProfile builds it from the user document
ProfileOf(doc, prof) == [isPrivate |-> doc.isPrivate, isAdmin |-> prof.isAdmin]

\* The application is loaded again in a client: AuthProvider's auth-state callback runs
\* fetchUserProfile, which caches the user document; the pages are built anew.
FetchUserProfile(c) ==
  /\ create[c].pc = "idle" /\ ~settings[c].loading
  /\ profile' = [profile EXCEPT ![c] = ProfileOf(users[session[c]], profile[c])]
  /\ create' = [create EXCEPT ![c] = IdleCreate]
  /\ settings' = [settings EXCEPT ![c] = NoSettingsPage]
  /\ UNCHANGED <<storeVars, notifications, authUsers, nextFollowId, clock, session, toast, card,
                 likeHist, home, admin, ucard, explore, signup, auth, ppage>>

SettingsStep(c) ==
  \/ SettingsMount(c)
  \/ HandlePrivacyToggle(c)
  \/ PrivacyUpdateDoc(c)
  \/ PrivacyFail(c)

\* ================================================================ UserCard
\* The identity a UserCard shows (user.uid); the cards of all clients show the same one.
CardTarget == 2

\* UserCard not shown.
NoUserCard == [mounted |-> FALSE, isFollowing |-> FALSE, loading |-> FALSE, checking |-> FALSE,
               pc |-> "idle", ref |-> 0]

\* UserCard after its first render and effect: isFollowing false, checkFollowStatus issued.
NewUserCard == [mounted |-> TRUE, isFollowing |-> FALSE, loading |-> FALSE, checking |-> TRUE,
                pc |-> "idle", ref |-> 0]

\* query(follows, where('followerId','==',uid), where('followingId','==',target))
FollowQueryDocs(fs, uid, target) ==
  SelectSeq(fs, LAMBDA d : d.followerId = uid /\ d.followingId = target)

\* deleteDoc(ref) on the follows collection
DeleteFollowDoc(fs, ref) == SelectSeq(fs, LAMBDA d : d.id # ref)

\* A page shows the identity (again): a new UserCard is built.
UserCardMount(c) ==
  /\ ucard[c].pc = "idle" /\ ~ucard[c].checking
  /\ ucard' = [ucard EXCEPT ![c] = NewUserCard]
  /\ UNCHANGED <<storeVars, notifications, authUsers, nextFollowId, clock, session, profile, toast,
                 card, likeHist, create, home, admin, settings, explore, signup, auth, ppage>>

\* checkFollowStatus resolves: setIsFollowing(!followSnapshot.empty); or rejects
\* (console.error only).
CheckFollowStatus(c, ok) ==
  /\ ucard[c].checking
  /\ ucard' = [ucard EXCEPT ![c].checking = FALSE,
                 ![c].isFollowing = IF ok THEN FollowQueryDocs(follows, session[c], CardTarget) # <<>>
                                    ELSE @]
  /\ UNCHANGED <<storeVars, notifications, authUsers, nextFollowId, clock, session, profile, toast,
                 card, likeHist, create, home, admin, settings, explore, signup, auth, ppage>>

\* handleFollow up to its first await: if (!currentUser || loading) return; the button is
\* shown on the cards of other identities only.  The branch is taken on the local
\* isFollowing: unfollow issues the query, follow issues setDoc.
HandleFollow(c) ==
  /\ ucard[c].mounted /\ session[c] # CardTarget
  /\ ~ucard[c].loading
  /\ IF ucard[c].isFollowing
     THEN ucard' = [ucard EXCEPT ![c].loading = TRUE, ![c].pc = "getDocs"]
     ELSE /\ nextFollowId + Cardinality({d \in Clients : ucard[d].pc = "setDoc"}) < MaxFollowDocs
          /\ ucard' = [ucard EXCEPT ![c].loading = TRUE, ![c].pc = "setDoc"]
  /\ UNCHANGED <<storeVars, notifications, authUsers, nextFollowId, clock, session, profile, toast,
                 card, likeHist, create, home, admin, settings, explore, signup, auth, ppage>>

\* The end of the unfollow branch: setIsFollowing(false), toast, finally.
UnfollowDone(c) ==
  /\ ucard' = [ucard EXCEPT ![c].isFollowing = FALSE, ![c].loading = FALSE, ![c].pc = "idle",
                            ![c].ref = 0]
  /\ toast' = [toast EXCEPT ![c] = "Unfollowed"]

\* await getDocs(followQuery) resolves: with an edge deleteDoc is issued, else the branch ends.
FollowGetDocs(c) ==
  /\ ucard[c].pc = "getDocs"
  /\ LET docs == FollowQueryDocs(follows, session[c], CardTarget)
     IN IF docs # <<>>
        THEN /\ ucard' = [ucard EXCEPT ![c].pc = "deleteDoc", ![c].ref = docs[1].id]
             /\ UNCHANGED toast
        ELSE UnfollowDone(c)
  /\ UNCHANGED <<storeVars, notifications, authUsers, nextFollowId, clock, session, profile,
                 card, likeHist, create, home, admin, settings, explore, signup, auth, ppage>>

\* await deleteDoc(followSnapshot.docs[0].ref) resolves.
FollowDeleteDoc(c) ==
  /\ ucard[c].pc = "deleteDoc"
  /\ follows' = DeleteFollowDoc(follows, ucard[c].ref)
  /\ UnfollowDone(c)
  /\ UNCHANGED <<posts, likes, nextLikeId, users, requests, notifications, authUsers, nextFollowId,
                 clock, session, profile, card, likeHist, create, home, admin, settings, explore,
                 signup, auth, ppage>>

\* The end of the follow branch: setIsFollowing(true), toast, finally.
FollowDone(c) ==
  /\ ucard' = [ucard EXCEPT ![c].isFollowing = TRUE, ![c].loading = FALSE, ![c].pc = "idle"]
  /\ toast' = [toast EXCEPT ![c] = "Following"]

\* the follow branch inserting only when the store holds no edge of the pair
FollowSetDocChecked(c) ==
  /\ ucard[c].pc = "setDoc"
  /\ IF FollowQueryDocs(follows, session[c], CardTarget) = <<>>
     THEN /\ follows' = Append(follows, [id |-> nextFollowId + 1, followerId |-> session[c],
                                         followingId |-> CardTarget])
          /\ nextFollowId' = nextFollowId + 1
     ELSE UNCHANGED <<follows, nextFollowId>>
  /\ FollowDone(c)
  /\ UNCHANGED <<posts, likes, nextLikeId, users, requests, notifications, authUsers,
                 clock, session, profile, card, likeHist, create, home, admin, settings, explore,
                 signup, auth, ppage>>

\* the follow branch also counting the edge on both user documents
FollowSetDocCounting(c) ==
  /\ ucard[c].pc = "setDoc"
  /\ follows' = Append(follows, [id |-> nextFollowId + 1, followerId |-> session[c],
                                 followingId |-> CardTarget])
  /\ nextFollowId' = nextFollowId + 1
  /\ users' = [users EXCEPT ![CardTarget].followerCount = @ + 1,
                            ![session[c]].followingCount = @ + 1]
  /\ FollowDone(c)
  /\ UNCHANGED <<posts, likes, nextLikeId, requests, notifications, authUsers,
                 clock, session, profile, card, likeHist, create, home, admin, settings, explore,
                 signup, auth, ppage>>

\* await setDoc(doc(collection(db,'follows')), {followerId, followingId, createdAt}) resolves:
\* a document with a new id is written.
FollowSetDoc(c) ==
  /\ ucard[c].pc = "setDoc"
  /\ follows' = Append(follows, [id |-> nextFollowId + 1, followerId |-> session[c],
                                 followingId |-> CardTarget])
  /\ nextFollowId' = nextFollowId + 1
  /\ FollowDone(c)
  /\ UNCHANGED <<posts, likes, nextLikeId, users, requests, notifications, authUsers,
                 clock, session, profile, card, likeHist, create, home, admin, settings, explore,
                 signup, auth, ppage>>

\* An awaited call of handleFollow rejects: catch shows the error toast, finally.
FollowFail(c) ==
  /\ ucard[c].pc # "idle"
  /\ ucard' = [ucard EXCEPT ![c].loading = FALSE, ![c].pc = "idle", ![c].ref = 0]
  /\ toast' = [toast EXCEPT ![c] = "Failed to update follow status"]
  /\ UNCHANGED <<storeVars, notifications, authUsers, nextFollowId, clock, session, profile,
                 card, likeHist, create, home, admin, settings, explore, signup, auth, ppage>>

FollowStep(c) ==
  \/ UserCardMount(c)
  \/ \E ok \in BOOLEAN : CheckFollowStatus(c, ok)
  \/ HandleFollow(c)
  \/ FollowGetDocs(c)
  \/ FollowDeleteDoc(c)
  \/ FollowSetDoc(c)
  \/ FollowFail(c)

\* ============================================================= ExplorePage
\* The client that shows ExplorePage.
ExploreClient == 1

\* limit(20) of fetchPublicPosts and of the post query of handleSearch
DiscoverLimit == 20

SearchLimit == 20

\* limit(10) of the user query of handleSearch
UserSearchLimit == 10

\* ExplorePage not shown.  outcome tells how the last completed call ended (observation only).
NoExplorePage == [mounted |-> FALSE, searchTerm |-> <<>>, posts |-> <<>>, users |-> <<>>,
                  loading |-> TRUE, searchLoading |-> FALSE, discoverPending |-> FALSE,
                  searches |-> <<>>, outcome |-> "none"]

\* ExplorePage after its first render and effects: fetchPublicPosts is issued; the effect on
\* [searchTerm] finds the term blank.
NewExplorePage == [NoExplorePage EXCEPT !.mounted = TRUE, !.discoverPending = TRUE]

\* The search terms typed into the input.
SearchTerms == {<<>>, <<" ">>, <<"A", "b">>, <<"b", " ">>}

\* String.prototype.includes
Includes(hay, needle) ==
  \E i \in 0..(Len(hay) - Len(needle)) : SubSeq(hay, i + 1, i + Len(needle)) = needle

\* UTF-16 code unit order of the characters of the model
CharCode(ch) == CASE ch = " " -> 32 [] ch = "A" -> 65 [] ch = "B" -> 66
                  [] ch = "a" -> 97 [] ch = "b" -> 98

RECURSIVE StringLessEq(_, _)
\* a <= b in the string order of the store
StringLessEq(a, b) ==
  IF a = <<>> THEN TRUE
  ELSE IF b = <<>> THEN FALSE
  ELSE IF CharCode(Head(a)) # CharCode(Head(b)) THEN CharCode(Head(a)) < CharCode(Head(b))
  ELSE StringLessEq(Tail(a), Tail(b))

\* username >= term and username <= term + U+F8FF: the usernames that start with term
InUsernameRange(username, term) ==
  /\ StringLessEq(term, username)
  /\ Len(username) >= Len(term) /\ SubSeq(username, 1, Len(term)) = term

RECURSIVE OrderByUsername(_, _)
\* The users with uids in S in ascending order of username, equal usernames by uid.
OrderByUsername(us, S) ==
  IF S = {} THEN <<>>
  ELSE LET m == CHOOSE u \in S : \A v \in S :
                  \/ us[u].username # us[v].username /\ StringLessEq(us[u].username, us[v].username)
                  \/ us[u].username = us[v].username /\ u <= v
       IN <<m>> \o OrderByUsername(us, S \ {m})

\* The user query of handleSearch and searchedUsers
UserSearchQuery(us, term) ==
  Take(OrderByUsername(us, {u \in DOMAIN us : InUsernameRange(us[u].username, ToLowerCase(term))}),
       UserSearchLimit)

\* where('isPublic','==',true), orderBy('likeCount','desc'), limit(20)
DiscoverQuery(ps) ==
  Take(OrderByDesc(ps, {i \in 1..Len(ps) : ps[i].isPublic}, "likeCount"), DiscoverLimit)

\* where('isPublic','==',true), orderBy('createdAt','desc'), limit(20)
SearchPostsQuery(ps) ==
  Take(OrderByDesc(ps, {i \in 1..Len(ps) : ps[i].isPublic}, "createdAt"), SearchLimit)

\* docs.map(doc => ({id: doc.id, ...doc.data()}))
ExplorePosts(ps, ids) == [k \in 1..Len(ids) |-> [id |-> ids[k]] @@ ps[ids[k]]]

\* the filter of handleSearch comparing the texts as stored
PostMatchesCaseSensitive(post, term) ==
  \/ Includes(post.text, term)
  \/ Includes(post.username, term)
  \/ Includes(post.displayName, term)

\* The filter of handleSearch; searchTerm is used as typed, untrimmed.
PostMatches(post, term) ==
  \/ Includes(ToLowerCase(post.text), ToLowerCase(term))
  \/ Includes(ToLowerCase(post.username), ToLowerCase(term))
  \/ Includes(ToLowerCase(post.displayName), ToLowerCase(term))

\* filteredPosts of handleSearch
FilteredPosts(ps, term) ==
  SelectSeq(ExplorePosts(ps, SearchPostsQuery(ps)), LAMBDA post : PostMatches(post, term))

\* The user opens ExplorePage.
ExploreMount ==
  /\ ~explore.discoverPending /\ explore.searches = <<>>
  /\ explore' = NewExplorePage
  /\ UNCHANGED <<storeVars, notifications, authUsers, nextFollowId, clock, session, profile, toast, card,
                 likeHist, create, home, admin, ucard, settings, signup, auth, ppage>>

\* fetchPublicPosts resolves (setPosts) or rejects (console.error only); finally setLoading(false).
FetchPublicPosts(ok) ==
  /\ explore.discoverPending
  /\ explore' = [explore EXCEPT !.discoverPending = FALSE, !.loading = FALSE,
                                !.posts = IF ok THEN ExplorePosts(posts, DiscoverQuery(posts)) ELSE @,
                                !.outcome = IF ok THEN "ok" ELSE "failed"]
  /\ UNCHANGED <<storeVars, notifications, authUsers, nextFollowId, clock, session, profile, toast, card,
                 likeHist, create, home, admin, ucard, settings, signup, auth, ppage>>

\* onChange of the input (shown once loading is false): setSearchTerm, and the effect on
\* [searchTerm]: handleSearch up to its first await for a non-blank term, else setUsers([]).
SetSearchTerm(t) ==
  /\ explore.mounted /\ ~explore.loading
  /\ t # explore.searchTerm
  /\ IF Trim(t) # <<>>
     THEN /\ Len(explore.searches) < MaxSearches
          /\ explore' = [explore EXCEPT !.searchTerm = t, !.searchLoading = TRUE,
                           !.searches = Append(@, [term |-> t, pc |-> "users", users |-> <<>>])]
     ELSE explore' = [explore EXCEPT !.searchTerm = t, !.users = <<>>]
  /\ UNCHANGED <<storeVars, notifications, authUsers, nextFollowId, clock, session, profile, toast, card,
                 likeHist, create, home, admin, ucard, settings, signup, auth, ppage>>

\* await getDocs(usersQuery) of the i-th handleSearch in flight resolves.
SearchUsers(i) ==
  /\ i \in 1..Len(explore.searches)
  /\ explore.searches[i].pc = "users"
  /\ explore' = [explore EXCEPT !.searches[i].pc = "posts",
                                !.searches[i].users = UserSearchQuery(users, explore.searches[i].term)]
  /\ UNCHANGED <<storeVars, notifications, authUsers, nextFollowId, clock, session, profile, toast, card,
                 likeHist, create, home, admin, ucard, settings, signup, auth, ppage>>

\* await getDocs(postsQuery) of the i-th handleSearch resolves: setUsers, setPosts, finally.
SearchPosts(i) ==
  /\ i \in 1..Len(explore.searches)
  /\ explore.searches[i].pc = "posts"
  /\ explore' = [explore EXCEPT !.users = explore.searches[i].users,
                                !.posts = FilteredPosts(posts, explore.searches[i].term),
                                !.searchLoading = FALSE, !.searches = RemoveAt(@, i),
                                !.outcome = "ok"]
  /\ UNCHANGED <<storeVars, notifications, authUsers, nextFollowId, clock, session, profile, toast, card,
                 likeHist, create, home, admin, ucard, settings, signup, auth, ppage>>

\* A getDocs of the i-th handleSearch rejects: console.error only; finally.
SearchFail(i) ==
  /\ i \in 1..Len(explore.searches)
  /\ explore' = [explore EXCEPT !.searchLoading = FALSE, !.searches = RemoveAt(@, i),
                                !.outcome = "failed"]
  /\ UNCHANGED <<storeVars, notifications, authUsers, nextFollowId, clock, session, profile, toast, card,
                 likeHist, create, home, admin, ucard, settings, signup, auth, ppage>>

ExploreStep ==
  \/ ExploreMount
  \/ \E ok \in BOOLEAN : FetchPublicPosts(ok)
  \/ \E t \in SearchTerms : SetSearchTerm(t)
  \/ \E i \in 1..MaxSearches : SearchUsers(i) \/ SearchPosts(i) \/ SearchFail(i)

\* ============================================================= LandingPage
\* The e-mail addresses and the values typed into the sign-up form: a username that is
\* too short, one handle in two spellings, and another handle.
Emails == {1, 2}

Usernames == {<<"a", "b">>, <<"a", "b", "a">>, <<"A", "b", "a">>, <<"b", "b", "a">>}

MinUsernameLen == 3

SignupForms == [email : Emails, username : Usernames, displayName : {<<"A">>},
                passwordsMatch : BOOLEAN]

NoForm == [email |-> 0, username |-> <<>>, displayName |-> <<>>, passwordsMatch |-> FALSE]

\* The sign-up form as mounted; uid is the account created by the call in flight.
IdleSignup == [pc |-> "idle", loading |-> FALSE, form |-> NoForm, uid |-> 0]

\* checkUsernameExists: !querySnapshot.empty for where('username','==',username.toLowerCase())
CheckUsernameExists(us, username) ==
  \E u \in DOMAIN us : us[u].username = ToLowerCase(username)

\* The user document written by handleSignup.
SignupDoc(uid, form) ==
  [uid |-> uid, email |-> form.email, username |-> ToLowerCase(form.username),
   displayName |-> form.displayName] @@ UserDoc

\* handleSignup up to its first await; the submit button is disabled while loading, and
\* the form is shown to visitors who are not signed in.
HandleSignup(c, form) ==
  /\ signup[c].pc = "idle" /\ session[c] = 0
  /\ IF ~form.passwordsMatch
     THEN /\ toast' = [toast EXCEPT ![c] = "Passwords do not match"]
          /\ UNCHANGED signup
     ELSE IF Len(form.username) < MinUsernameLen
     THEN /\ toast' = [toast EXCEPT ![c] = "Username must be at least 3 characters"]
          /\ UNCHANGED signup
     ELSE /\ signup' = [signup EXCEPT ![c] = [pc |-> "checkUsername", loading |-> TRUE,
                                               form |-> form, uid |-> 0]]
          /\ UNCHANGED toast
  /\ UNCHANGED <<storeVars, notifications, authUsers, nextFollowId, clock, session, profile, card,
                 likeHist, create, home, admin, ucard, settings, explore, auth, ppage>>

\* await checkUsernameExists(username) resolves.
SignupCheck(c) ==
  /\ signup[c].pc = "checkUsername"
  /\ IF CheckUsernameExists(users, signup[c].form.username)
     THEN /\ signup' = [signup EXCEPT ![c] = IdleSignup]
          /\ toast' = [toast EXCEPT ![c] = "Username already taken"]
     ELSE /\ signup' = [signup EXCEPT ![c].pc = "createUser"]
          /\ UNCHANGED toast
  /\ UNCHANGED <<storeVars, notifications, authUsers, nextFollowId, clock, session, profile, card,
                 likeHist, create, home, admin, ucard, settings, explore, auth, ppage>>

\* await createUserWithEmailAndPassword resolves: the service rejects an address that has an
\* account (catch, finally); otherwise it creates the account and signs the client in.
SignupCreateUser(c) ==
  /\ signup[c].pc = "createUser"
  /\ IF \E u \in DOMAIN authUsers : authUsers[u] = signup[c].form.email
     THEN /\ signup' = [signup EXCEPT ![c] = IdleSignup]
          /\ toast' = [toast EXCEPT ![c] = "Signup failed"]
          /\ UNCHANGED <<authUsers, session>>
     ELSE /\ authUsers' = Append(authUsers, signup[c].form.email)
          /\ session' = [session EXCEPT ![c] = Len(authUsers) + 1]
          /\ signup' = [signup EXCEPT ![c].pc = "setDoc", ![c].uid = Len(authUsers) + 1]
          /\ UNCHANGED toast
  /\ UNCHANGED <<storeVars, notifications, nextFollowId, clock, profile, card,
                 likeHist, create, home, admin, ucard, settings, explore, auth, ppage>>

\* await setDoc(doc(db,'users',user.uid), {...}) resolves; toast, finally.
SignupSetDoc(c) ==
  /\ signup[c].pc = "setDoc"
  /\ users' = (signup[c].uid :> SignupDoc(signup[c].uid, signup[c].form)) @@ users
  /\ signup' = [signup EXCEPT ![c] = IdleSignup]
  /\ toast' = [toast EXCEPT ![c] = "Welcome to DQUOTE!"]
  /\ UNCHANGED <<posts, likes, nextLikeId, follows, requests, notifications, authUsers, nextFollowId, clock,
                 session, profile, card, likeHist, create, home, admin, ucard, settings, explore, auth, ppage>>

\* An awaited call of handleSignup rejects: catch shows the error toast, finally.
SignupFail(c) ==
  /\ signup[c].pc \in {"checkUsername", "createUser", "setDoc"}
  /\ signup' = [signup EXCEPT ![c] = IdleSignup]
  /\ toast' = [toast EXCEPT ![c] = "Signup failed"]
  /\ UNCHANGED <<storeVars, notifications, authUsers, nextFollowId, clock, session, profile, card,
                 likeHist, create, home, admin, ucard, settings, explore, auth, ppage>>

SignupStep(c) ==
  \/ \E form \in SignupForms : HandleSignup(c, form)
  \/ SignupCheck(c)
  \/ SignupCreateUser(c)
  \/ SignupSetDoc(c)
  \/ SignupFail(c)

\* ============================================================ AuthProvider
\* The client whose AuthProvider and ProfilePage are followed step by step.
AuthClient == 1

\* AuthProvider as constructed: useState(null), useState(null), useState(true); 0 is null,
\* userProfile holds the uid of the user document it was read from, fetches the uids of the
\* auth-state callbacks that wait for their getDoc.
NewAuthProvider == [user |-> 0, userProfile |-> 0, loading |-> TRUE, fetches |-> <<>>]

\* ProfilePage not shown.  path is the username of the route (0: none), profile the uid of
\* the profile set, posts the ids of the posts set; lookups, postFetches and followChecks
\* are the calls of fetchUserProfile, fetchUserPosts and checkFollowStatus in flight.
NoProfilePage == [mounted |-> FALSE, path |-> 0, loading |-> TRUE, profile |-> 0, posts |-> <<>>,
                  isFollowing |-> FALSE, lookups |-> <<>>, postFetches |-> <<>>,
                  followChecks |-> <<>>]

\* The usernames a profile route names: those of the registered users (a username stands
\* for its uid) and one that no user document has.
ProfilePaths == Users \cup {4}

\* The calls of ProfilePage pp in flight.
ProfileCalls(pp) == Len(pp.lookups) + Len(pp.postFetches) + Len(pp.followChecks)

\* The effect of ProfilePage on [username, currentUserProfile, isOwnProfile], for the
\* currentUserProfile cup: the own profile is copied from the session and its posts are
\* fetched; another username is looked up; with no username and no session profile nothing
\* is done.
ProfileEffect(pp, cup) ==
  LET isOwnProfile == pp.path = 0 \/ (cup # 0 /\ pp.path = cup)
  IN IF isOwnProfile /\ cup # 0
     THEN [pp EXCEPT !.profile = cup, !.postFetches = Append(@, cup)]
     ELSE IF pp.path # 0
          THEN [pp EXCEPT !.lookups = Append(@, pp.path)]
          ELSE pp

\* onAuthStateChanged calls back with user u (0: signed out) up to the first await:
\* setUser(user); for a user fetchUserProfile is issued, else setUserProfile(null) and
\* setLoading(false).  Sign-in is offered by LandingPage, which AuthGuard shows to a
\* signed-out visitor only; with no user AuthGuard replaces the pages by LandingPage.
OnAuthStateChanged(u) ==
  /\ IF u # 0
     THEN /\ auth.user = 0
          /\ Len(auth.fetches) < MaxAuthFetches
          /\ auth' = [auth EXCEPT !.user = u, !.fetches = Append(@, u)]
          /\ UNCHANGED ppage
     ELSE /\ auth.user # 0 \/ (auth.loading /\ auth.fetches = <<>>)
          /\ auth' = [auth EXCEPT !.user = 0, !.userProfile = 0, !.loading = FALSE]
          /\ ppage' = NoProfilePage
  /\ UNCHANGED <<storeVars, notifications, authUsers, nextFollowId, clock, session, profile, toast,
                 card, likeHist, create, home, admin, ucard, settings, explore, signup>>

\* The getDoc of fetchUserProfile in the i-th running auth-state callback resolves
\* (setUserProfile if the document exists) or rejects (console.error only); the callback
\* then ends with setLoading(false).  A ProfilePage shown runs its effect on the new profile.
AuthFetchUserProfile(i, ok) ==
  /\ i \in 1..Len(auth.fetches)
  /\ LET uid == auth.fetches[i]
         cup == IF ok /\ uid \in DOMAIN users THEN uid ELSE auth.userProfile
     IN /\ auth' = [auth EXCEPT !.userProfile = cup, !.loading = FALSE, !.fetches = RemoveAt(@, i)]
        /\ IF ppage.mounted /\ cup # auth.userProfile
           THEN /\ ProfileCalls(ppage) < MaxProfileCalls
                /\ ppage' = ProfileEffect(ppage, cup)
           ELSE UNCHANGED ppage
  /\ UNCHANGED <<storeVars, notifications, authUsers, nextFollowId, clock, session, profile, toast,
                 card, likeHist, create, home, admin, ucard, settings, explore, signup>>

\* ============================================================= ProfilePage
\* where('userId','==',userId), orderBy('createdAt','desc')
UserPostsQuery(ps, userId) ==
  OrderByDesc(ps, {i \in 1..Len(ps) : ps[i].userId = userId}, "createdAt")

\* The user opens /profile (path 0) or /profile/:username: AuthGuard renders the routes for
\* a signed-in user once loading is false; the page starts with loading true and runs its
\* effect.
ProfilePageMount(path) ==
  /\ auth.user # 0 /\ ~auth.loading
  /\ ~ppage.mounted
  /\ ppage' = ProfileEffect([NoProfilePage EXCEPT !.mounted = TRUE, !.path = path], auth.userProfile)
  /\ UNCHANGED <<storeVars, notifications, authUsers, nextFollowId, clock, session, profile, toast,
                 card, likeHist, create, home, admin, ucard, settings, explore, signup, auth>>

\* The route changes to another profile path while ProfilePage is shown: the page keeps its
\* state and the effect runs for the new username.
ProfileNavigate(path) ==
  /\ ppage.mounted /\ path # ppage.path
  /\ ProfileCalls(ppage) < MaxProfileCalls
  /\ ppage' = ProfileEffect([ppage EXCEPT !.path = path], auth.userProfile)
  /\ UNCHANGED <<storeVars, notifications, authUsers, nextFollowId, clock, session, profile, toast,
                 card, likeHist, create, home, admin, ucard, settings, explore, signup, auth>>

\* The user leaves ProfilePage for another page: the calls in flight answer to no page.
ProfileLeave ==
  /\ ppage.mounted
  /\ ppage' = NoProfilePage
  /\ UNCHANGED <<storeVars, notifications, authUsers, nextFollowId, clock, session, profile, toast,
                 card, likeHist, create, home, admin, ucard, settings, explore, signup, auth>>

\* The getDocs of the i-th fetchUserProfile of ProfilePage resolves (with a document:
\* setProfile, fetchUserPosts and checkFollowStatus are issued) or rejects (console.error
\* only); finally setLoading(false).
ProfileFetchUserProfile(i, ok) ==
  /\ i \in 1..Len(ppage.lookups)
  /\ LET uid == ppage.lookups[i]
     IN IF ok /\ uid \in DOMAIN users
        THEN ppage' = [ppage EXCEPT !.profile = uid, !.loading = FALSE,
                                    !.lookups = RemoveAt(@, i),
                                    !.postFetches = Append(@, uid),
                                    !.followChecks = Append(@, uid)]
        ELSE ppage' = [ppage EXCEPT !.loading = FALSE, !.lookups = RemoveAt(@, i)]
  /\ UNCHANGED <<storeVars, notifications, authUsers, nextFollowId, clock, session, profile, toast,
                 card, likeHist, create, home, admin, ucard, settings, explore, signup, auth>>

\* The getDocs of the i-th fetchUserPosts resolves (setPosts) or rejects (console.error only).
FetchUserPosts(i, ok) ==
  /\ i \in 1..Len(ppage.postFetches)
  /\ ppage' = [ppage EXCEPT !.postFetches = RemoveAt(@, i),
                            !.posts = IF ok THEN UserPostsQuery(posts, ppage.postFetches[i]) ELSE @]
  /\ UNCHANGED <<storeVars, notifications, authUsers, nextFollowId, clock, session, profile, toast,
                 card, likeHist, create, home, admin, ucard, settings, explore, signup, auth>>

\* The getDocs of the i-th checkFollowStatus of ProfilePage resolves
\* (setIsFollowing(!followSnapshot.empty)) or rejects (console.error only).
ProfileCheckFollowStatus(i, ok) ==
  /\ i \in 1..Len(ppage.followChecks)
  /\ ppage' = [ppage EXCEPT !.followChecks = RemoveAt(@, i),
                 !.isFollowing = IF ok
                                 THEN FollowQueryDocs(follows, auth.user, ppage.followChecks[i]) # <<>>
                                 ELSE @]
  /\ UNCHANGED <<storeVars, notifications, authUsers, nextFollowId, clock, session, profile, toast,
                 card, likeHist, create, home, admin, ucard, settings, explore, signup, auth>>

\* ------------------------------------------------------ pages that are not shown
RestIdle ==
  /\ notifications = <<>>
  /\ authUsers = [u \in DOMAIN users |-> u]
  /\ nextFollowId = Len(follows)
  /\ ucard = [c \in Clients |-> NoUserCard]
  /\ settings = [c \in Clients |-> NoSettingsPage]
  /\ explore = NoExplorePage
  /\ signup = [c \in Clients |-> IdleSignup]
  /\ auth = [NewAuthProvider EXCEPT !.user = session[AuthClient],
                                     !.userProfile = session[AuthClient], !.loading = FALSE]
  /\ ppage = NoProfilePage

\* ------------------------------------------------- like toggle specification
InitLike ==
  /\ posts = <<PostData(1, <<"a">>, 0, [isPrivate |-> FALSE, isAdmin |-> FALSE])>>
  /\ likes = <<>>
  /\ nextLikeId = 0
  /\ users = [u \in Users |-> UserDoc]
  /\ follows = <<>>
  /\ requests = <<>>
  /\ clock = 0
  /\ session \in {f \in [Clients -> Users] : f[1] = 1}
  /\ profile = [c \in Clients |-> [isPrivate |-> FALSE, isAdmin |-> FALSE]]
  /\ toast = [c \in Clients |-> "none"]
  /\ card = [c \in Clients |-> NewCard(posts[CardPost])]
  /\ likeHist = NoHist
  /\ create = [c \in Clients |-> IdleCreate]
  /\ home = NoHomePage
  /\ admin = [c \in Clients |-> NoAdminPage]
  /\ RestIdle

NextLike == \E c \in Clients : LikeStep(c)

SpecLike == InitLike /\ [][NextLike]_vars

\* C27: the stored likeCount of a post, 0 at creation, is never negative, under any
\* interleaving of like toggles by the clients and any pattern of failed remote calls.
C27_LikeCountNonNegative ==
  \A p \in 1..Len(posts) : posts[p].likeCount >= 0

C27_Witness ==
  /\ posts[CardPost].likeCount = 0
  /\ nextLikeId = 2
  /\ \A c \in Clients : card[c].calls = <<>> /\ ~card[c].liked
  /\ \E c \in Clients : toast[c] = "Failed to update like"
  /\ session[1] # session[2]
  /\ \A c \in Clients : EdgeCount(CardPost, session[c]) = 0

\* ------------------------------------------------ post creation specification
InitCreate ==
  /\ posts = <<>>
  /\ likes = <<>>
  /\ nextLikeId = 0
  /\ users = [u \in Users |-> UserDoc]
  /\ follows = <<>>
  /\ requests = <<>>
  /\ clock = 0
  /\ session \in {f \in [Clients -> Users] : f[1] = 1}
  /\ profile = [c \in Clients |-> [isPrivate |-> FALSE, isAdmin |-> FALSE]]
  /\ toast = [c \in Clients |-> "none"]
  /\ card = [c \in Clients |-> NewCard(PostData(1, <<>>, 0, [isPrivate |-> FALSE, isAdmin |-> FALSE]))]
  /\ likeHist = NoHist
  /\ create = [c \in Clients |-> IdleCreate]
  /\ home = NoHomePage
  /\ admin = [c \in Clients |-> NoAdminPage]
  /\ RestIdle

NextCreate == Tick \/ \E c \in Clients : CreateStep(c)

SpecCreate == InitCreate /\ [][NextCreate]_vars

\* ------------------------------------------------------ home feed specification
\* The viewer of HomePage is user 1; users 2, 3, ... are the identities it may follow,
\* Stranger is an identity it never follows.
FollowCounts == {0, 1, 2, FollowChunk + 1}

Stranger == FollowChunk + 3

FeedUsers == 1..Stranger

\* Stores of posts: a few posts of a followee, of the 11th followee and of a stranger; and
\* more posts of one followee than one page of the feed holds.
SeedPost(uid, at, lk) == [PostData(uid, <<"a">>, at, [isPrivate |-> FALSE, isAdmin |-> FALSE])
                            EXCEPT !.likeCount = lk]

FewPosts == <<SeedPost(2, 1, 0), SeedPost(FollowChunk + 2, 2, 2), SeedPost(Stranger, 3, 1),
              SeedPost(3, 3, 0)>>

ManyPosts == [i \in 1..(FeedLimit + 3) |->
                IF i = 5 THEN SeedPost(Stranger, i, 4)
                ELSE IF i = 7 THEN SeedPost(FollowChunk + 2, i, 3)
                ELSE SeedPost(2, i \div 2, i % 3)]

InitFeed ==
  /\ posts \in {FewPosts, ManyPosts}
  /\ likes = <<>>
  /\ nextLikeId = 0
  /\ users = [u \in FeedUsers |-> UserDoc]
  /\ \E n \in FollowCounts : follows = [k \in 1..n |-> [id |-> k, followerId |-> 1, followingId |-> k + 1]]
  /\ requests = <<>>
  /\ clock = 0
  /\ session \in {f \in [Clients -> Users] : f[1] = 1}
  /\ profile = [c \in Clients |-> [isPrivate |-> FALSE, isAdmin |-> FALSE]]
  /\ toast = [c \in Clients |-> "none"]
  /\ card = [c \in Clients |-> NewCard(posts[CardPost])]
  /\ likeHist = NoHist
  /\ create = [c \in Clients |-> IdleCreate]
  /\ home = NewHomePage
  /\ admin = [c \in Clients |-> NoAdminPage]
  /\ RestIdle

NextFeed == HomeStep \/ \E c \in Clients \ {HomeClient} : LikeStep(c)

SpecFeed == InitFeed /\ [][NextFeed]_vars

\* ------------------------------------------------------------ home feed claims
\* The displayed feed is sorted by createdAt, newest first.
NewestFirst(feed) == \A k \in 1..(Len(feed) - 1) : feed[k].createdAt >= feed[k + 1].createdAt

\* HomePage has finished loading: the spinner is gone, no fetch is in flight, none failed.
HomeSettled ==
  ~home.loading /\ ~home.followPending /\ home.fetches = <<>> /\ home.failures = 0

\* C1: for a viewer whose follow query returned 1 to 10 followees, the feed shown once
\* loading has finished holds only posts of those followees, newest first, at most 20.
C1_FeedOnlyFollowees ==
  (HomeSettled /\ Len(home.following) \in 1..FollowChunk) =>
    /\ \A k \in 1..Len(home.posts) : home.posts[k].userId \in Range(home.following)
    /\ NewestFirst(home.posts)
    /\ Len(home.posts) <= FeedLimit

\* feed is the page of the PopularLimit most liked documents of ps, most liked first.
IsTopLiked(feed, ps) ==
  /\ Len(feed) = Min(PopularLimit, Len(ps))
  /\ \A k \in 1..Len(feed) :
       /\ feed[k].id \in 1..Len(ps)
       /\ feed[k].likeCount = ps[feed[k].id].likeCount
       /\ feed[k].userId = ps[feed[k].id].userId
  /\ \A k, l \in 1..Len(feed) : k < l => feed[k].id # feed[l].id /\ feed[k].likeCount >= feed[l].likeCount
  /\ \A j \in 1..Len(ps) : \A k \in 1..Len(feed) :
       j \notin {feed[l].id : l \in 1..Len(feed)} => ps[j].likeCount <= feed[k].likeCount

\* C2: for a viewer with no follow edge in the store, every home feed fetch that resolves
\* displays the (at most) 10 posts with the highest likeCount in the store, most liked first.
C2_PopularFeed ==
  [][(/\ FollowingIds(follows, session[HomeClient]) = <<>>
      /\ Len(home'.fetches) < Len(home.fetches)
      /\ home'.failures = home.failures)
     => IsTopLiked(home'.posts, posts)]_vars

C2_Witness ==
  /\ FollowingIds(follows, session[HomeClient]) = <<>>
  /\ HomeSettled
  /\ Len(home.posts) = PopularLimit /\ Len(posts) > PopularLimit
  /\ home.posts[1].userId = Stranger

\* C3: for a viewer whose follow query returned more than 10 followees, every post of the
\* feed is of one of the first 10; posts of later followees never appear.
C3_FeedOnlyFirstTen ==
  (HomeSettled /\ Len(home.following) > FollowChunk) =>
    \A k \in 1..Len(home.posts) : home.posts[k].userId \in Range(Take(home.following, FollowChunk))

\* C25: HomePage issues a feed fetch on mount with the empty follow set and another after
\* the follow set has loaded; once both have completed, the displayed posts are the result
\* of the fetch issued for the latest follow set, whatever the order of the two responses:
\* for a non-empty follow set they are the posts the followee query returns.
C25_LatestFollowSetWins ==
  (HomeSettled /\ Len(home.following) > 0) =>
    [k \in 1..Len(home.posts) |-> home.posts[k].id] = HomeFeedQuery(posts, home.following)

\* C16: every failed remote call, of a read as well as of a write, is reported to the user
\* as a notice and is not reissued: once a fetch of HomePage has failed a notice has been
\* shown to its user, and the failing step issues no new call.
C16_FailuresReported ==
  /\ [](home.failures > 0 => toast[HomeClient] # "none")
  /\ [][home'.failures > home.failures =>
          /\ Len(home'.fetches) < Len(home.fetches) \/ home'.fetches = home.fetches
          /\ home'.followPending => home.followPending]_vars

\* ------------------------------------------ verification decision specification
InitAdmin ==
  /\ posts = <<>>
  /\ likes = <<>>
  /\ nextLikeId = 0
  /\ users = [u \in Users |-> UserDoc]
  /\ follows = <<>>
  /\ requests = <<RequestDoc(1, 1), RequestDoc(2, 2)>>
  /\ clock = 0
  /\ session = [c \in Clients |-> c]
  /\ profile = [c \in Clients |-> [isPrivate |-> FALSE, isAdmin |-> TRUE]]
  /\ toast = [c \in Clients |-> "none"]
  /\ card = [c \in Clients |-> NewCard(PostData(1, <<>>, 0, [isPrivate |-> FALSE, isAdmin |-> FALSE]))]
  /\ likeHist = NoHist
  /\ create = [c \in Clients |-> IdleCreate]
  /\ home = NoHomePage
  /\ admin = [c \in Clients |-> NewAdminPage]
  /\ RestIdle

NextAdmin == \E a \in Clients : AdminStep(a)

SpecAdmin == InitAdmin /\ [][NextAdmin]_vars

\* ----------------------------------------------- privacy and post creation
\* Both clients are sessions of the same author, who types one text.
InitPrivacy == InitCreate /\ session = [c \in Clients |-> 1]

PrivacyText == <<"a", " ", "a">>

NextPrivacy ==
  \E c \in Clients :
    \/ HandleSubmit(c, PrivacyText)
    \/ CreateCheck(c)
    \/ CreateAddDoc(c)
    \/ CreateUpdateDoc(c)
    \/ CreateFail(c)
    \/ SettingsStep(c)
    \/ FetchUserProfile(c)

SpecPrivacy == InitPrivacy /\ [][NextPrivacy]_vars

\* C11: every created post has isPublic equal to the negation of the author's stored
\* isPrivate flag at the time the post document is created; a post created after the
\* author's toggle to private succeeded is stored with isPublic false.
C11_IsPublicFromStoredFlag ==
  [][\A c \in Clients :
       (create[c].pc = "addDoc" /\ create'[c].pc = "updateDoc")
       => posts'[Len(posts')].isPublic = ~users[session[c]].isPrivate]_vars

\* ------------------------------------------------------ sign-up specification
\* No identity is registered; both clients show the sign-up form.
InitSignup ==
  /\ posts = <<>>
  /\ likes = <<>>
  /\ nextLikeId = 0
  /\ users = <<>>
  /\ follows = <<>>
  /\ requests = <<>>
  /\ clock = 0
  /\ session = [c \in Clients |-> 0]
  /\ profile = [c \in Clients |-> [isPrivate |-> FALSE, isAdmin |-> FALSE]]
  /\ toast = [c \in Clients |-> "none"]
  /\ card = [c \in Clients |-> NewCard(PostData(1, <<>>, 0, [isPrivate |-> FALSE, isAdmin |-> FALSE]))]
  /\ likeHist = NoHist
  /\ create = [c \in Clients |-> IdleCreate]
  /\ home = NoHomePage
  /\ admin = [c \in Clients |-> NoAdminPage]
  /\ RestIdle

NextSignup == \E c \in Clients : SignupStep(c)

SpecSignup == InitSignup /\ [][NextSignup]_vars

\* C12: no two user documents in the store have the same username.
C12_UniqueUsernames ==
  \A u, v \in DOMAIN users : u # v => users[u].username # users[v].username

\* ------------------------------------------------------ explore specification
\* Three registered identities; a store with fewer posts than one page of the search, and
\* one with more public posts than a page, holding private posts and posts that match a
\* term by text, by username or by displayName only.
ExploreUserDocs ==
  <<SignupDoc(1, [email |-> 1, username |-> <<"a", "b", "a">>, displayName |-> <<"A">>,
                  passwordsMatch |-> TRUE]),
    SignupDoc(2, [email |-> 2, username |-> <<"b", "b", "b">>, displayName |-> <<"B", " ", "B">>,
                  passwordsMatch |-> TRUE]),
    SignupDoc(3, [email |-> 3, username |-> <<"b", "b", "a">>, displayName |-> <<"A", "B">>,
                  passwordsMatch |-> TRUE])>>

\* A post document as CreatePage stores it, with the like count it has reached.
ExplorePost(uid, text, at, lk, pub) ==
  [[username |-> ExploreUserDocs[uid].username, displayName |-> ExploreUserDocs[uid].displayName]
     @@ PostData(uid, text, at, [isPrivate |-> ~pub, isAdmin |-> FALSE])
   EXCEPT !.likeCount = lk]

FewExplorePosts ==
  <<ExplorePost(1, <<"A", "b">>, 1, 0, TRUE), ExplorePost(2, <<"a", "b">>, 2, 2, FALSE),
    ExplorePost(2, <<"b">>, 3, 1, TRUE)>>

ManyExplorePosts ==
  [i \in 1..(SearchLimit + 4) |->
     IF i = 1 THEN ExplorePost(1, <<"a", "b">>, i, 5, TRUE)
     ELSE IF i = 10 THEN ExplorePost(2, <<"B", "A", "B">>, i, 0, TRUE)
     ELSE IF i = 12 THEN ExplorePost(2, <<"a", "b">>, i, 4, FALSE)
     ELSE IF i = 14 THEN ExplorePost(3, <<"b">>, i, 0, TRUE)
     ELSE IF i = 20 THEN ExplorePost(1, <<"b">>, i, 1, TRUE)
     ELSE IF i = 22 THEN ExplorePost(2, <<"b">>, i, 3, FALSE)
     ELSE ExplorePost(2, <<"b">>, i, i % 3, TRUE)]

InitExplore ==
  /\ posts \in {FewExplorePosts, ManyExplorePosts}
  /\ likes = <<>>
  /\ nextLikeId = 0
  /\ users = ExploreUserDocs
  /\ follows = <<>>
  /\ requests = <<>>
  /\ clock = 0
  /\ session = [c \in Clients |-> 1]
  /\ profile = [c \in Clients |-> [isPrivate |-> FALSE, isAdmin |-> FALSE]]
  /\ toast = [c \in Clients |-> "none"]
  /\ card = [c \in Clients |-> NewCard(posts[CardPost])]
  /\ likeHist = NoHist
  /\ create = [c \in Clients |-> IdleCreate]
  /\ home = NoHomePage
  /\ admin = [c \in Clients |-> NoAdminPage]
  /\ notifications = <<>>
  /\ authUsers = [u \in DOMAIN users |-> u]
  /\ nextFollowId = Len(follows)
  /\ ucard = [c \in Clients |-> NoUserCard]
  /\ settings = [c \in Clients |-> NoSettingsPage]
  /\ explore = NewExplorePage
  /\ signup = [c \in Clients |-> IdleSignup]
  /\ auth = [NewAuthProvider EXCEPT !.user = session[AuthClient],
                                     !.userProfile = session[AuthClient], !.loading = FALSE]
  /\ ppage = NoProfilePage

NextExplore == ExploreStep

SpecExplore == InitExplore /\ [][NextExplore]_vars

\* ---------------------------------------------------------------- explore claims
\* needle occurs in hay when the case of the letters is disregarded.
ContainsIgnoringCase(hay, needle) ==
  \E i \in 0..(Len(hay) - Len(needle)) :
    \A k \in 1..Len(needle) : LowerChar(hay[i + k]) = LowerChar(needle[k])

\* Post i of ps is public and fewer than SearchLimit public posts are more recent.
AmongRecentPublic(ps, i) ==
  /\ ps[i].isPublic
  /\ Cardinality({j \in 1..Len(ps) : ps[j].isPublic /\ ps[j].createdAt > ps[i].createdAt}) < SearchLimit

\* shown is exactly the posts among the SearchLimit most recent public posts of ps that
\* contain term in text, username or displayName, most recent first.
IsSearchResult(shown, ps, term) ==
  /\ {shown[k].id : k \in 1..Len(shown)} =
       {i \in 1..Len(ps) :
          /\ AmongRecentPublic(ps, i)
          /\ \/ ContainsIgnoringCase(ps[i].text, term)
             \/ ContainsIgnoringCase(ps[i].username, term)
             \/ ContainsIgnoringCase(ps[i].displayName, term)}
  /\ \A k, l \in 1..Len(shown) : k < l => shown[k].createdAt > shown[l].createdAt
  /\ \A k \in 1..Len(shown) :
       /\ shown[k].text = ps[shown[k].id].text
       /\ shown[k].userId = ps[shown[k].id].userId
       /\ shown[k].createdAt = ps[shown[k].id].createdAt

\* C14: every search that completes successfully displays exactly the posts among the 20
\* most recent public posts whose text, username or displayName contains its (non-blank)
\* search term regardless of case, most recent first; no displayed post has isPublic false.
C14_SearchShowsMatchingPublic ==
  /\ [](\A k \in 1..Len(explore.posts) : explore.posts[k].isPublic)
  /\ [][\A i \in 1..Len(explore.searches) :
          (/\ explore.searches[i].pc = "posts"
           /\ explore'.searches = RemoveAt(explore.searches, i)
           /\ explore'.outcome = "ok")
          => /\ Trim(explore.searches[i].term) # <<>>
             /\ IsSearchResult(explore'.posts, posts, explore.searches[i].term)]_vars

C14_Witness ==
  /\ explore.searchTerm = <<"A", "b">> /\ explore.searches = <<>> /\ explore.outcome = "ok"
  /\ Len(posts) > SearchLimit
  /\ {explore.posts[k].id : k \in 1..Len(explore.posts)} = {10, 14, 20}

\* C28: whenever the search term is blank and no search is in flight, the posts ExplorePage
\* displays are the Discover list fetched at mount (public posts by likeCount descending,
\* at most 20; none when that fetch failed), also after a term was typed and cleared again.
C28_BlankTermShowsDiscover ==
  (/\ explore.mounted /\ ~explore.loading
   /\ Trim(explore.searchTerm) = <<>> /\ explore.searches = <<>>)
  => \/ explore.posts = ExplorePosts(posts, DiscoverQuery(posts))
     \/ explore.posts = <<>>

\* C29: whenever the search term is non-blank and no search call is in flight, the user and
\* post results ExplorePage displays are those computed for the current term: responses of
\* overlapping searches arriving out of order leave no results of an older term on display.
C29_ResultsOfCurrentTerm ==
  (/\ explore.mounted /\ Trim(explore.searchTerm) # <<>>
   /\ explore.searches = <<>> /\ explore.outcome = "ok")
  => /\ explore.posts = FilteredPosts(posts, explore.searchTerm)
     /\ explore.users = UserSearchQuery(users, explore.searchTerm)

\* ------------------------------------------------------ session specification
\* The application starts in the browser of AuthClient: AuthProvider is constructed and the
\* authentication service reports the user; the user opens profile routes, signs out and
\* signs in again.  User 1 follows user 2; each has a post.
InitSession ==
  /\ posts = <<PostData(1, <<"a">>, 0, [isPrivate |-> FALSE, isAdmin |-> FALSE]),
               PostData(2, <<"b">>, 1, [isPrivate |-> FALSE, isAdmin |-> FALSE])>>
  /\ likes = <<>>
  /\ nextLikeId = 0
  /\ users = [u \in Users |-> UserDoc]
  /\ follows = <<[id |-> 1, followerId |-> 1, followingId |-> 2]>>
  /\ requests = <<>>
  /\ clock = 0
  /\ session = [c \in Clients |-> 1]
  /\ profile = [c \in Clients |-> [isPrivate |-> FALSE, isAdmin |-> FALSE]]
  /\ toast = [c \in Clients |-> "none"]
  /\ card = [c \in Clients |-> NewCard(posts[CardPost])]
  /\ likeHist = NoHist
  /\ create = [c \in Clients |-> IdleCreate]
  /\ home = NoHomePage
  /\ admin = [c \in Clients |-> NoAdminPage]
  /\ notifications = <<>>
  /\ authUsers = [u \in DOMAIN users |-> u]
  /\ nextFollowId = Len(follows)
  /\ ucard = [c \in Clients |-> NoUserCard]
  /\ settings = [c \in Clients |-> NoSettingsPage]
  /\ explore = NoExplorePage
  /\ signup = [c \in Clients |-> IdleSignup]
  /\ auth = NewAuthProvider
  /\ ppage = NoProfilePage

\* The authentication service reports a user of Users, an account that has no user
\* document (its sign-up stopped before setDoc) or a sign-out; the user moves between
\* profile routes; the calls in flight are answered.
NextSession ==
  \/ \E u \in Users \cup {0, 3} : OnAuthStateChanged(u)
  \/ \E i \in 1..MaxAuthFetches : \E ok \in BOOLEAN : AuthFetchUserProfile(i, ok)
  \/ \E path \in ProfilePaths \cup {0} : ProfilePageMount(path) \/ ProfileNavigate(path)
  \/ ProfileLeave
  \/ \E i \in 1..(MaxProfileCalls + 1) : \E ok \in BOOLEAN :
       \/ ProfileFetchUserProfile(i, ok)
       \/ FetchUserPosts(i, ok)
       \/ ProfileCheckFollowStatus(i, ok)

SpecSession == InitSession /\ [][NextSession]_vars

\* Every remote call in flight is answered (resolved or rejected) sooner or later; what the
\* user does and what the authentication service reports is not forced.
SpecSessionFair ==
  /\ SpecSession
  /\ WF_vars(\E i \in 1..MaxAuthFetches : \E ok \in BOOLEAN : AuthFetchUserProfile(i, ok))
  /\ WF_vars(\E i \in 1..(MaxProfileCalls + 1) : \E ok \in BOOLEAN : ProfileFetchUserProfile(i, ok))
  /\ WF_vars(\E i \in 1..(MaxProfileCalls + 1) : \E ok \in BOOLEAN : FetchUserPosts(i, ok))
  /\ WF_vars(\E i \in 1..(MaxProfileCalls + 1) : \E ok \in BOOLEAN : ProfileCheckFollowStatus(i, ok))

\* ----------------------------------------------------------------- session claims
\* C26: whenever the signed-in user of AuthProvider is null and no auth-state callback is
\* still running, userProfile is null: a profile fetch started by a sign-in that resolves
\* after a later sign-out does not repopulate userProfile.
C26_SignedOutHasNoProfile ==
  (auth.user = 0 /\ auth.fetches = <<>>) => auth.userProfile = 0

\* The profile ProfilePage is to show is the viewer's own and the session profile is loaded.
OwnProfileAvailable ==
  /\ ppage.mounted
  /\ auth.userProfile # 0
  /\ ppage.path = 0 \/ ppage.path = auth.userProfile

\* C30: ProfilePage eventually leaves its loading state whenever the profile to show is
\* available: when it shows the viewer's own profile with the session profile loaded, and
\* when it shows another identity's profile and the lookup is answered.
C30_ProfileLeavesLoading ==
  /\ (OwnProfileAvailable /\ ppage.loading) ~> (~ppage.mounted \/ ~ppage.loading)
  /\ (ppage.mounted /\ ppage.lookups # <<>> /\ ppage.loading) ~> (~ppage.mounted \/ ~ppage.loading)

\* ------------------------------------------------------- follow specification
\* Two registered identities; each client shows the UserCard of CardTarget.
InitFollow ==
  /\ posts = <<PostData(1, <<"a">>, 0, [isPrivate |-> FALSE, isAdmin |-> FALSE])>>
  /\ likes = <<>>
  /\ nextLikeId = 0
  /\ users = [u \in Users |-> UserDoc]
  /\ follows = <<>>
  /\ requests = <<>>
  /\ clock = 0
  /\ session \in {f \in [Clients -> Users] : f[1] = 1}
  /\ profile = [c \in Clients |-> [isPrivate |-> FALSE, isAdmin |-> FALSE]]
  /\ toast = [c \in Clients |-> "none"]
  /\ card = [c \in Clients |-> NewCard(posts[CardPost])]
  /\ likeHist = NoHist
  /\ create = [c \in Clients |-> IdleCreate]
  /\ home = NoHomePage
  /\ admin = [c \in Clients |-> NoAdminPage]
  /\ notifications = <<>>
  /\ authUsers = [u \in DOMAIN users |-> u]
  /\ nextFollowId = 0
  /\ ucard = [c \in Clients |-> NewUserCard]
  /\ settings = [c \in Clients |-> NoSettingsPage]
  /\ explore = NoExplorePage
  /\ signup = [c \in Clients |-> IdleSignup]
  /\ auth = [NewAuthProvider EXCEPT !.user = session[AuthClient],
                                     !.userProfile = session[AuthClient], !.loading = FALSE]
  /\ ppage = NoProfilePage

NextFollow == \E c \in Clients : FollowStep(c)

SpecFollow == InitFollow /\ [][NextFollow]_vars

\* ----------------------------------------------------------------- follow claims
\* C19: follow inserts an edge without looking for an existing one: a setDoc of the follow
\* branch that succeeds appends one edge (viewer, target) whatever edges the store holds,
\* so two clients of one viewer that both show not-following leave two edges of the pair.
C19_FollowInsertsUnchecked ==
  [][\A c \in Clients :
       (/\ ucard[c].pc = "setDoc" /\ ucard'[c].pc = "idle"
        /\ toast'[c] # "Failed to update follow status")
       => /\ Len(follows') = Len(follows) + 1
          /\ SubSeq(follows', 1, Len(follows)) = follows
          /\ follows'[Len(follows')].followerId = session[c]
          /\ follows'[Len(follows')].followingId = CardTarget
          /\ ucard'[c].isFollowing]_vars

C19_Witness ==
  /\ session[1] = session[2]
  /\ \A c \in Clients : ucard[c].pc = "idle" /\ ucard[c].isFollowing /\ toast[c] = "Following"
  /\ Len(FollowQueryDocs(follows, session[1], CardTarget)) = 2

\* C20: handleFollow changes only the follows collection: every step of its follow and of
\* its unfollow branch leaves all user documents (followerCount, followingCount and the
\* other fields), all posts, likes, verification requests and notifications unchanged.
C20_FollowFrame ==
  [][(\E c \in Clients : ucard[c].pc # "idle" \/ ucard'[c].pc # "idle")
     => /\ users' = users
        /\ posts' = posts
        /\ notifications' = notifications
        /\ likes' = likes
        /\ requests' = requests]_vars

C20_Witness ==
  \E c \in Clients :
    /\ toast[c] = "Unfollowed" /\ ucard[c].pc = "idle" /\ ~ucard[c].isFollowing
    /\ nextFollowId = 1 /\ follows = <<>>
    /\ users[CardTarget].followerCount = 0 /\ users[session[c]].followingCount = 0

\* C24: after the unfollow branch of handleFollow completes without error and the card
\* shows not-following, the store holds no follow edge from the viewer to the target (so a
\* checkFollowStatus of the pair yields false and the viewer's follow set lacks the target).
C24_UnfollowLeavesNoEdge ==
  [][\A c \in Clients :
       (/\ ucard[c].pc \in {"getDocs", "deleteDoc"} /\ ucard'[c].pc = "idle"
        /\ toast'[c] = "Unfollowed" /\ ~ucard'[c].isFollowing)
       => FollowQueryDocs(follows', session[c], CardTarget) = <<>>]_vars

\* ------------------------------------------------ verification decision claims
\* C10: a verification request changes status only from pending, and only once: a request
\* that has become approved or rejected never changes status again.
C10_DecidedOnce ==
  [][\A r \in 1..Len(requests) :
       requests[r].status # "pending" => requests'[r].status = requests[r].status]_vars

\* The i-th decision call of page a, waiting at pc, ends in this step with the error notice.
DecisionFailsAt(a, i, pc) ==
  /\ i \in 1..Len(admin[a].calls)
  /\ admin[a].calls[i].pc = pc
  /\ admin'[a].calls = RemoveAt(admin[a].calls, i)
  /\ toast'[a] = "Failed to update verification request"

\* C21: when the user write of an 'approved' decision fails after its request write
\* succeeded, nothing is rolled back: the request keeps the status written, the isVerified
\* flag stays as it was, the error notice is shown and the request stays in the local list.
C21_FailedUserWriteNoRollback ==
  [][\A a \in Clients : \A i \in 1..MaxDecisions :
       DecisionFailsAt(a, i, "updateUser")
       => /\ requests' = requests
          /\ users' = users
          /\ admin'[a].list = admin[a].list]_vars

C21_Witness ==
  /\ InFlightDecisions = 0
  /\ \E a \in Clients : \E r \in Range(admin[a].list) :
       /\ toast[a] = "Failed to update verification request"
       /\ requests[r].status = "approved"
       /\ ~users[requests[r].userId].isVerified

\* The i-th decision call of page a takes a step (a write resolves or is rejected).
DecisionSteps(a, i) ==
  /\ i \in 1..Len(admin[a].calls)
  /\ \/ admin'[a].calls = RemoveAt(admin[a].calls, i)
     \/ /\ Len(admin'[a].calls) = Len(admin[a].calls)
        /\ admin'[a].calls[i] # admin[a].calls[i]

\* The step of the i-th decision call of page a in which its request write is rejected: the
\* call waits for that write, the write would change the status, and the store keeps the
\* request as it was.
RequestWriteFails(a, i) ==
  /\ DecisionSteps(a, i)
  /\ admin[a].calls[i].pc = "updateRequest"
  /\ requests[admin[a].calls[i].req].status # admin[a].calls[i].decision
  /\ requests' = requests

\* C22: when the request write of an 'approved' decision fails outright the reverse
\* inconsistency can result (flag set, request not approved): the handler does not end at
\* the failed request write but goes on to the user write.
C22_FailedRequestWriteSetsFlag ==
  [][\A a \in Clients : \A i \in 1..MaxDecisions :
       (RequestWriteFails(a, i) /\ admin[a].calls[i].decision = "approved")
       => /\ Len(admin'[a].calls) = Len(admin[a].calls)
          /\ admin'[a].calls[i].pc = "updateUser"]_vars

\* C22 (amended): when the request write of a decision fails, the handler ends in its catch
\* block: the user write is not issued, the request and the isVerified flag are unchanged,
\* the error notice is shown and the request stays in the local list.
C22_FailedRequestWriteEndsAmended ==
  [][\A a \in Clients : \A i \in 1..MaxDecisions :
       RequestWriteFails(a, i)
       => /\ admin'[a].calls = RemoveAt(admin[a].calls, i)
          /\ toast'[a] = "Failed to update verification request"
          /\ users' = users
          /\ admin'[a].list = admin[a].list]_vars

C22_Witness ==
  /\ InFlightDecisions = 0
  /\ \A r \in 1..Len(requests) : requests[r].status = "pending"
  /\ \A u \in Users : ~users[u].isVerified
  /\ \E a \in Clients :
       /\ toast[a] = "Failed to update verification request"
       /\ admin[a].list # <<>>

\* C23: re-applying a decision is safe: a step of a decision call for a request that
\* already has the call's outcome as status (and, for 'approved', whose identity already
\* has isVerified set) leaves that status and that flag as they are.
C23_ReapplyIsIdempotent ==
  [][\A a \in Clients : \A i \in 1..MaxDecisions :
       (/\ DecisionSteps(a, i)
        /\ requests[admin[a].calls[i].req].status = admin[a].calls[i].decision
        /\ admin[a].calls[i].decision = "approved"
             => users[requests[admin[a].calls[i].req].userId].isVerified)
       => /\ requests'[admin[a].calls[i].req].status = requests[admin[a].calls[i].req].status
          /\ \A u \in Users : users'[u].isVerified = users[u].isVerified]_vars

C23_Witness ==
  /\ InFlightDecisions = 0
  /\ \A a \in Clients : toast[a] = "Verification approved"
  /\ requests[1].status = "approved" /\ users[requests[1].userId].isVerified
  /\ requests[1].reviewedBy = 2
  /\ requests[2].status = "pending"

\* C15: no two mutation handlers of one UI instance are in flight at once: a PostCard has
\* at most one like toggle awaiting a remote call, and an AdminPage at most one
\* verification decision (CreatePage, SettingsPage and UserCard hold one call by their
\* program counter).
C15_OneMutationInFlight ==
  \A c \in Clients : Len(card[c].calls) <= 1 /\ Len(admin[c].calls) <= 1

\* ------------------------------------------------------ post creation claims
\* A post of author uid in ps created less than RateWindow seconds before the instant now.
RecentPostOf(ps, uid, now) ==
  \E i \in 1..Len(ps) : ps[i].userId = uid /\ now - ps[i].createdAt < RateWindow

\* C5: a createPost submitted less than 60 seconds after a post of the same author was
\* created is rejected with the rate-limit notice: when its rate-limit query resolves, the
\* handler ends there, adds no post and leaves every postCount as it is.
C5_SecondPostRejected ==
  [][\A c \in Clients :
       (/\ create[c].pc = "checkRateLimit"
        /\ create'[c].pc # "checkRateLimit"
        /\ toast'[c] # "Failed to create post"
        /\ RecentPostOf(posts, session[c], create[c].now))
       => (/\ toast'[c] = "Too fast!"
           /\ create'[c].pc = "idle"
           /\ ~create'[c].loading
           /\ posts' = posts
           /\ users' = users)]_vars

C5_Witness ==
  \E c \in Clients :
    /\ toast[c] = "Too fast!"
    /\ create[c].pc = "idle"
    /\ \A d \in Clients : create[d].pc = "idle"
    /\ Len(posts) = 1 /\ posts[1].userId = session[c]
    /\ users[session[c]].postCount = 1
    /\ clock - posts[1].createdAt < RateWindow

\* t is raw without its leading and trailing whitespace.
IsTrimOf(t, raw) ==
  /\ t # <<>> => t[1] # " " /\ t[Len(t)] # " "
  /\ \E i \in 0..Len(raw) : \E j \in i..Len(raw) :
       /\ t = SubSeq(raw, i + 1, j)
       /\ \A k \in (1..i) \cup ((j + 1)..Len(raw)) : raw[k] = " "

\* C6: a createPost that passed the rate-limit check adds, when addDoc succeeds, exactly
\* one post document, of the author, with likeCount 0, commentCount 0 and the trimmed text;
\* when the following updateDoc succeeds, the author's postCount is raised by exactly 1.
C6_CreatePostEffect ==
  [][\A c \in Clients :
       /\ (create[c].pc = "addDoc" /\ create'[c].pc = "updateDoc")
          => /\ Len(posts') = Len(posts) + 1
             /\ SubSeq(posts', 1, Len(posts)) = posts
             /\ LET p == posts'[Len(posts')]
                IN /\ p.userId = session[c]
                   /\ p.likeCount = 0 /\ p.commentCount = 0
                   /\ IsTrimOf(p.text, create[c].text) /\ p.text # <<>>
             /\ users' = users
       /\ (create[c].pc = "updateDoc" /\ create'[c].pc = "idle" /\ toast'[c] = "Posted!")
          => /\ users'[session[c]].postCount = users[session[c]].postCount + 1
             /\ \A u \in Users \ {session[c]} : users'[u] = users[u]
             /\ posts' = posts]_vars

C6_Witness ==
  \E c \in Clients :
    /\ toast[c] = "Posted!" /\ create[c].pc = "idle"
    /\ Len(posts) = 1 /\ posts[1].userId = session[c]
    /\ posts[1].text = <<"a">> /\ posts[1].likeCount = 0 /\ posts[1].commentCount = 0
    /\ users[session[c]].postCount = 1

\* The number of post documents of author u.
PostsOf(ps, u) == Cardinality({i \in 1..Len(ps) : ps[i].userId = u})

\* The handleSubmit calls of author u that have added their post and not yet their count.
CountPending(u) == Cardinality({c \in Clients : session[c] = u /\ create[c].pc = "updateDoc"})

\* postCount accounts for every post of every author but those whose count write is pending.
PostCountBalanced ==
  \A u \in Users : users[u].postCount + CountPending(u) = PostsOf(posts, u)

\* A remote write (addDoc or updateDoc) of handleSubmit fails in this step.
CreateWriteFails ==
  \E c \in Clients :
    /\ create[c].pc \in {"addDoc", "updateDoc"}
    /\ create'[c].pc = "idle"
    /\ toast'[c] = "Failed to create post"

\* C13: as long as no remote write of createPost has failed, every author's postCount plus
\* the count writes still pending equals the number of the author's posts; so with no
\* createPost in flight postCount equals the number of posts, however the submissions of
\* several clients of one author interleave.
C13_PostCountMatches ==
  /\ PostCountBalanced
  /\ [][(PostCountBalanced /\ ~CreateWriteFails) => PostCountBalanced']_vars

C13_Witness ==
  /\ session[1] = session[2]
  /\ \A c \in Clients : create[c].pc = "idle" /\ toast[c] = "Posted!"
  /\ users[session[1]].postCount = 2
  /\ PostsOf(posts, session[1]) = 2

\* C9: the rate limit is best effort.  A rate-limit query that finds no recent post of the
\* author passes also while another client of the same author is between its own query and
\* its insert, and a client that has passed the query inserts its post whatever the store
\* holds by then; so two posts of one author created within 60 seconds are reachable.
C9_RateLimitBestEffort ==
  [][\A c \in Clients :
       /\ (/\ create[c].pc = "checkRateLimit"
           /\ create'[c].pc # "checkRateLimit"
           /\ toast'[c] # "Failed to create post"
           /\ ~RecentPostOf(posts, session[c], create[c].now))
          => create'[c].pc = "addDoc"
       /\ (/\ create[c].pc = "addDoc"
           /\ create'[c].pc # "addDoc"
           /\ toast'[c] # "Failed to create post")
          => /\ create'[c].pc = "updateDoc"
             /\ Len(posts') = Len(posts) + 1
             /\ posts'[Len(posts')].userId = session[c]
             /\ posts'[Len(posts')].createdAt = create[c].createdAt]_vars

C9_Witness ==
  \E i, j \in 1..Len(posts) :
    /\ i < j
    /\ posts[i].userId = posts[j].userId
    /\ posts[j].createdAt - posts[i].createdAt < RateWindow
    /\ posts[i].createdAt - posts[j].createdAt < RateWindow
    /\ \A c \in Clients : create[c].pc = "idle" /\ toast[c] = "Posted!"

C17_FailedIncrementNoRollback ==
  [][\A c \in Clients :
       (/\ Len(card[c].calls) = 1 /\ card[c].calls[1].pc = "updateInc"
        /\ card'[c].calls = <<>>
        /\ posts'[CardPost].likeCount = posts[CardPost].likeCount)
       => /\ likes' = likes
          /\ posts' = posts
          /\ card'[c].liked = card[c].liked
          /\ card'[c].likeCount = card[c].likeCount
          /\ toast'[c] = "Failed to update like"
          /\ ~card'[c].loading]_vars

C17_Witness ==
  /\ \A d \in Clients : card[d].calls = <<>>
  /\ \E c \in Clients :
       /\ toast[c] = "Failed to update like" /\ ~card[c].loading
       /\ ~card[c].liked /\ card[c].likeCount = 0
       /\ nextLikeId = 1 /\ EdgeCount(CardPost, session[c]) = 1
       /\ posts[CardPost].likeCount = 0

\* The like edges stored for post pid.
PostEdgeCount(pid) == Len(SelectSeq(likes, LAMBDA d : d.postId = pid))

\* C18: like counters drift under concurrent access alone.  With no failed call (no error
\* notice has been shown to the client), an unlike whose edge another client has deleted
\* in the meantime still completes its deleteDoc, changing nothing, and goes on to the
\* decrement; the decrement lowers the stored likeCount by one whatever the store holds.
\* So two clients of one viewer reach a quiescent state with likeCount # number of edges.
C18_DriftWithoutFailure ==
  [][\A c \in Clients :
       (/\ Len(card[c].calls) = 1
        /\ card'[c].calls # card[c].calls
        /\ toast'[c] = "none")
       => /\ (/\ card[c].calls[1].pc = "deleteDoc"
              /\ ~\E d \in Range(likes) : d.id = card[c].calls[1].ref)
             => /\ Len(card'[c].calls) = 1 /\ card'[c].calls[1].pc = "updateDec"
                /\ likes' = likes /\ posts' = posts
          /\ card[c].calls[1].pc = "updateDec"
             => /\ posts'[CardPost].likeCount = posts[CardPost].likeCount - 1
                /\ likes' = likes]_vars

C18_Witness ==
  /\ session[1] = session[2]
  /\ \A c \in Clients : toast[c] = "none" /\ card[c].calls = <<>> /\ ~card[c].loading
  /\ posts[CardPost].likeCount # PostEdgeCount(CardPost)

\* C7: handleLike chooses its direction by the like edge found in the store: it deletes and
\* decrements only when the query found an edge, it inserts and increments only when the
\* query found none.
C7_DirectionByEdgeExistence ==
  \A c \in Clients : \A i \in 1..Len(card[c].calls) :
    LET call == card[c].calls[i]
    IN /\ call.pc \in {"deleteDoc", "updateDec"} => call.ref # 0
       /\ call.pc \in {"addDoc", "updateInc"} => call.ref = 0

\* C8: at most one like toggle of a card is in flight; a handleLike invocation that starts
\* while the card is busy issues no remote call (it adds no call to the card).
C8_OneToggleInFlight ==
  /\ [](\A c \in Clients : Len(card[c].calls) <= 1 /\ (card[c].calls # <<>> => card[c].loading))
  /\ [][\A c \in Clients : card[c].calls # <<>> => Len(card'[c].calls) <= Len(card[c].calls)]_vars

C7_Witness ==
  \E c \in Clients : \E i \in 1..Len(card[c].calls) :
    card[c].calls[i].pc = "addDoc" /\ card[c].calls[i].ref # 0

C8_Witness ==
  \E c \in Clients : card[c].ignored /\ Len(card[c].calls) = 1 /\ card[c].calls[1].pc # "getDocs"

====
